---- MODULE Spec2Model ----
(***************************************************************************)
(* Model of xelm.ts (expanded-elm): the README scanner, the rule applier,  *)
(* the conditional preprocessor, the transformation cache and the build    *)
(* pipeline.  Texts are sequences of one-character strings (and of whole   *)
(* words where the code only compares words), so that the conversions the  *)
(* code performs on them are computed and not assumed.                     *)
(***************************************************************************)
EXTENDS Integers, Sequences, FiniteSets, TLC

VARIABLES
    doc,        \* scanner: the token stream marked.lexer returned for a README
    regExp,     \* scanner: the namespace pattern, or NoRegExp
    scanOut,    \* scanner: what extractReadme returned or threw, or NotRun
    preContent, \* preprocessor: the replacement text given to preprocess
    preConfig,  \* preprocessor: the flags of the build configuration
    preOut,     \* preprocessor: the text preprocess returned, or Pending
    trContent,  \* applier: the compiled code given to transform
    trConfig,   \* applier: the configuration, with its transformations
    trOut,      \* applier: the text transform returned, or Pending
    fs,         \* cache: elm.json, the READMEs and the cache artifacts on disk
    now,        \* cache: the time a file written now is stamped with
    call,       \* cache: the last extractWithCache call and what it did
    ncalls,     \* cache: the number of calls made
    buildOptions, \* build: the options elm was called with
    pc,         \* build: the await the build is suspended at
    buildContent, \* build: the text postprocess holds
    disk,       \* build: the output file, the temporary file, the bindings
    trace,      \* build: the steps of the build so far, in order
    status,     \* build: the status of the compiler
    bindings,   \* build: the write of the TypeScript bindings
    nsName,     \* namespace: the name of a package, as elm.json gives it
    nsText,     \* namespace: the text of a code block
    nsOut,      \* namespace: the rewritten text, or Pending
    walk,       \* walker: the mode, the files two directories up, the results
    proc,       \* command line: the process running cli, or the embedding caller
    tab,        \* normalization: a text and what spacesToTabs made of it
    race        \* concurrent builds: the mode and each build's place in extractWithCache

scanVars == <<doc, regExp, scanOut>>
preVars == <<preContent, preConfig, preOut>>
trVars == <<trContent, trConfig, trOut>>
cacheVars == <<fs, now, call, ncalls>>
nsVars == <<nsName, nsText, nsOut>>
walkVars == <<walk>>
cliVars == <<proc>>
tabVars == <<tab>>
raceVars == <<race>>
buildVars == <<buildOptions, pc, buildContent, disk, trace, status, bindings>>
vars == <<doc, regExp, scanOut, preContent, preConfig, preOut,
          trContent, trConfig, trOut, fs, now, call, ncalls,
          buildOptions, pc, buildContent, disk, trace, status, bindings,
          nsName, nsText, nsOut, walk, proc, tab, race>>

\* The value of a result variable before the call returned.
Pending == <<"<pending>">>

NotRun == [ok |-> FALSE, error |-> "not run", transforms |-> <<>>]

(***************************************************************************)
(* Bounds of the model.                                                    *)
(***************************************************************************)
MaxTokens == 6
MaxNsTokens == 3
MaxLines == 6
MaxMixedLines == 3
MaxContent == 5
MaxRules == 2
MaxTime == 2
MaxCalls == 2
MaxChunks == 3
MaxBlocks == 3
MaxCompiled == 2
MaxIndented == 6

(***************************************************************************)
(* Text helpers.                                                           *)
(***************************************************************************)
SeqsUpTo(S, n) == UNION {[1..k -> S] : k \in 0..n}

RECURSIVE Flatten(_)
Flatten(ss) == IF ss = <<>> THEN <<>> ELSE Head(ss) \o Flatten(Tail(ss))

MatchAt(s, i, p) ==
    /\ i + Len(p) - 1 <= Len(s)
    /\ SubSeq(s, i, i + Len(p) - 1) = p

\* String.prototype.replaceAll(pattern, replacement) for a non-empty literal
\* pattern: leftmost matches, scanned once, never overlapping.
RECURSIVE replaceAllFrom(_, _, _, _)
replaceAllFrom(s, i, p, r) ==
    IF i > Len(s) THEN <<>>
    ELSE IF MatchAt(s, i, p) THEN r \o replaceAllFrom(s, i + Len(p), p, r)
    ELSE <<s[i]>> \o replaceAllFrom(s, i + 1, p, r)

replaceAll(s, p, r) == IF p = <<>> THEN s ELSE replaceAllFrom(s, 1, p, r)

\* The regular expression class \s, over the characters the model uses.
IsSpace(c) == c \in {" ", "\t", "\n"}

\* The assertion ^ under the m flag.
LineStart(s, i) == i = 1 \/ s[i - 1] = "\n"

\* End of the maximal \s+ run that starts at i.
RECURSIVE RunEnd(_, _)
RunEnd(s, i) == IF i < Len(s) /\ IsSpace(s[i + 1]) THEN RunEnd(s, i + 1) ELSE i

RECURSIVE spacesToTabsFrom(_, _, _)
spacesToTabsFrom(s, i, spaces) ==
    IF i > Len(s) THEN <<>>
    ELSE IF LineStart(s, i) /\ IsSpace(s[i])
    THEN LET j == RunEnd(s, i)
         IN  replaceAll(SubSeq(s, i, j), spaces, <<"\t">>)
                 \o spacesToTabsFrom(s, j + 1, spaces)
    ELSE <<s[i]>> \o spacesToTabsFrom(s, i + 1, spaces)

\* content.replace(/^\s+/gm, (match) => match.replaceAll(spaces, "\t"))
spacesToTabs(content, spaces) == spacesToTabsFrom(content, 1, spaces)

TwoSpaces == <<" ", " ">>
FourSpaces == <<" ", " ", " ", " ">>

(***************************************************************************)
(* Conditional preprocessor: preprocess(content, config).                  *)
(***************************************************************************)
\* content.split("\n") and lines.join("\n")
RECURSIVE SplitFrom(_, _, _)
SplitFrom(s, i, cur) ==
    IF i > Len(s) THEN <<cur>>
    ELSE IF s[i] = "\n" THEN <<cur>> \o SplitFrom(s, i + 1, <<>>)
    ELSE SplitFrom(s, i + 1, Append(cur, s[i]))

SplitLines(s) == SplitFrom(s, 1, <<>>)

RECURSIVE JoinLines(_)
JoinLines(ls) ==
    IF ls = <<>> THEN <<>>
    ELSE IF Len(ls) = 1 THEN ls[1]
    ELSE ls[1] \o <<"\n">> \o JoinLines(Tail(ls))

\* line.trim().split(/\s+/): the words of a line; a blank line has the one
\* word "".
RECURSIVE WordsFrom(_, _, _)
WordsFrom(s, i, cur) ==
    IF i > Len(s) THEN (IF cur = <<>> THEN <<>> ELSE <<cur>>)
    ELSE IF IsSpace(s[i])
    THEN (IF cur = <<>> THEN <<>> ELSE <<cur>>) \o WordsFrom(s, i + 1, <<>>)
    ELSE WordsFrom(s, i + 1, Append(cur, s[i]))

Words(line) ==
    LET w == WordsFrom(line, 1, <<>>) IN IF w = <<>> THEN << <<>> >> ELSE w

\* const [comment, cond, flag] = ...: a missing word is undefined.
Undefined == <<"<undefined>">>
WordAt(ws, k) == IF k <= Len(ws) THEN ws[k] ELSE Undefined

\* const vars = ["debug", "test"]
FlagVars == {<<"debug">>, <<"test">>}
FlagValue(config, flag) == IF flag = <<"debug">> THEN config.debug ELSE config.test

\* String.prototype.replace(pattern, replacement) for a literal pattern:
\* the first occurrence only.
RECURSIVE FirstIndex(_, _, _)
FirstIndex(s, i, p) ==
    IF i + Len(p) - 1 > Len(s) THEN 0
    ELSE IF MatchAt(s, i, p) THEN i
    ELSE FirstIndex(s, i + 1, p)

replaceFirst(s, p, r) ==
    LET i == FirstIndex(s, 1, p)
    IN  IF i = 0 THEN s
        ELSE SubSeq(s, 1, i - 1) \o r \o SubSeq(s, i + Len(p), Len(s))

\* "\t".repeat(n)
Tabs(n) == [k \in 1..n |-> "\t"]

\* for (const { flag, cond } of stack) if (cond !== (config[flag] ?? false)) ...
StackHolds(stack, config) ==
    \A k \in 1..Len(stack) : stack[k].cond = FlagValue(config, stack[k].flag)

\* PreStep with @UNLESS pushing the same requirement as @IF.
PreStepUnlessAsIf(st, line, config) ==
    LET ws == Words(line)
        comment == WordAt(ws, 1)
        cond == WordAt(ws, 2)
        flag == WordAt(ws, 3)
    IN  IF comment = <<"//">> /\ cond = <<"@IF">> /\ flag \in FlagVars
        THEN [st EXCEPT !.stack = Append(st.stack, [flag |-> flag, cond |-> TRUE])]
        ELSE IF comment = <<"//">> /\ cond = <<"@UNLESS">> /\ flag \in FlagVars
        THEN [st EXCEPT !.stack = Append(st.stack, [flag |-> flag, cond |-> TRUE])]
        ELSE IF comment = <<"//">> /\ cond = <<"@END">>
        THEN [st EXCEPT !.stack =
                 IF st.stack = <<>> THEN <<>>
                 ELSE SubSeq(st.stack, 1, Len(st.stack) - 1)]
        ELSE IF ~StackHolds(st.stack, config) THEN st
        ELSE [st EXCEPT !.lines = Append(st.lines,
                 IF Len(st.stack) = 0 THEN line
                 ELSE replaceFirst(line, Tabs(Len(st.stack)), <<>>))]

\* One iteration of `for (const line of content.split("\n"))`; stack.pop()
\* on an empty stack returns undefined and changes nothing.
PreStep(st, line, config) ==
    LET ws == Words(line)
        comment == WordAt(ws, 1)
        cond == WordAt(ws, 2)
        flag == WordAt(ws, 3)
    IN  IF comment = <<"//">> /\ cond = <<"@IF">> /\ flag \in FlagVars
        THEN [st EXCEPT !.stack = Append(st.stack, [flag |-> flag, cond |-> TRUE])]
        ELSE IF comment = <<"//">> /\ cond = <<"@UNLESS">> /\ flag \in FlagVars
        THEN [st EXCEPT !.stack = Append(st.stack, [flag |-> flag, cond |-> FALSE])]
        ELSE IF comment = <<"//">> /\ cond = <<"@END">>
        THEN [st EXCEPT !.stack =
                 IF st.stack = <<>> THEN <<>>
                 ELSE SubSeq(st.stack, 1, Len(st.stack) - 1)]
        ELSE IF ~StackHolds(st.stack, config) THEN st
        ELSE [st EXCEPT !.lines = Append(st.lines,
                 IF Len(st.stack) = 0 THEN line
                 ELSE replaceFirst(line, Tabs(Len(st.stack)), <<>>))]

RECURSIVE PreLoop(_, _, _, _)
PreLoop(st, ls, i, config) ==
    IF i > Len(ls) THEN st
    ELSE PreLoop(PreStep(st, ls[i], config), ls, i + 1, config)

preprocess(content, config) ==
    JoinLines(PreLoop([stack |-> <<>>, lines |-> <<>>],
                      SplitLines(content), 1, config).lines)

(***************************************************************************)
(* Rule applier: transform(content, config).                               *)
(***************************************************************************)
\* The characters escapeRegExp escapes: /[.*+?^${}()|[\]\\\/]/g
RegExpSpecial ==
    {".", "*", "+", "?", "^", "$", "{", "}", "(", ")", "|", "[", "]", "\\", "/"}

\* escapeRegExp without the replacement: the text is the pattern.
escapeRegExpNone(text) == text

\* text.replace(/[.*+?^${}()|[\]\\\/]/g, "\\$&")
RECURSIVE escapeRegExp(_)
escapeRegExp(text) ==
    IF text = <<>> THEN <<>>
    ELSE (IF Head(text) \in RegExpSpecial THEN <<"\\", Head(text)>> ELSE <<Head(text)>>)
             \o escapeRegExp(Tail(text))

\* The regular expression engine on one alternative, from element k of the
\* pattern and position i of the text: the position after the match, or 0.
\* A backslash makes the next character literal; of the special characters
\* only `$` (end of line, under the m flag) and `.` occur in the model's
\* texts, every other character is literal.
RECURSIVE MatchPattern(_, _, _, _)
MatchPattern(s, i, pat, k) ==
    IF k > Len(pat) THEN i
    ELSE IF pat[k] = "\\"
    THEN IF k < Len(pat) /\ i <= Len(s) /\ s[i] = pat[k + 1]
         THEN MatchPattern(s, i + 1, pat, k + 2) ELSE 0
    ELSE IF pat[k] = "$"
    THEN IF i > Len(s) \/ s[i] = "\n" THEN MatchPattern(s, i, pat, k + 1) ELSE 0
    ELSE IF pat[k] = "."
    THEN IF i <= Len(s) /\ s[i] # "\n" THEN MatchPattern(s, i + 1, pat, k + 1) ELSE 0
    ELSE IF i <= Len(s) /\ s[i] = pat[k]
    THEN MatchPattern(s, i + 1, pat, k + 1) ELSE 0

\* An alternation that prefers the longest match at i to the first.
FirstAlternativeLongest(s, i, patterns) ==
    LET S == {k \in 1..Len(patterns) : MatchPattern(s, i, patterns[k], 1) # 0}
    IN  IF S = {} THEN 0
        ELSE CHOOSE k \in S : \A m \in S :
                 \/ MatchPattern(s, i, patterns[k], 1) > MatchPattern(s, i, patterns[m], 1)
                 \/ (MatchPattern(s, i, patterns[k], 1) = MatchPattern(s, i, patterns[m], 1)
                        /\ k <= m)

\* `(p1|p2|...)`: the first alternative, in order, that matches at i; 0 if none.
FirstAlternative(s, i, patterns) ==
    LET S == {k \in 1..Len(patterns) : MatchPattern(s, i, patterns[k], 1) # 0}
    IN  IF S = {} THEN 0 ELSE CHOOSE k \in S : \A m \in S : k <= m

\* const fmt = spacesToTabs(find)
Fmt(rule) == spacesToTabs(rule.find, TwoSpaces)

\* map[fmt] = preprocess(spacesToTabs(replace), config)
Replacement(rule, config) == preprocess(spacesToTabs(rule.replace, TwoSpaces), config)

\* A map that keeps the first entry written for a key.
MapLookupFirst(config, substring) ==
    LET rules == config.transformations
        S == {k \in 1..Len(rules) : Fmt(rules[k]) = substring}
    IN  IF S = {} THEN substring
        ELSE Replacement(rules[CHOOSE k \in S : \A m \in S : k <= m], config)

\* map[substring] ?? substring: a later rule with the same fmt has
\* overwritten the entry of an earlier one.
MapLookup(config, substring) ==
    LET rules == config.transformations
        S == {k \in 1..Len(rules) : Fmt(rules[k]) = substring}
    IN  IF S = {} THEN substring
        ELSE Replacement(rules[CHOOSE k \in S : \A m \in S : m <= k], config)

\* content.replaceAll(regexp, ...) with the g flag: the scan resumes after
\* each match, and one character further after an empty match.
RECURSIVE ReplaceMatches(_, _, _, _)
ReplaceMatches(s, i, patterns, config) ==
    IF i > Len(s) + 1 THEN <<>>
    ELSE LET k == FirstAlternative(s, i, patterns)
             here == IF i <= Len(s) THEN <<s[i]>> ELSE <<>>
         IN  IF k = 0 THEN here \o ReplaceMatches(s, i + 1, patterns, config)
             ELSE LET e == MatchPattern(s, i, patterns[k], 1)
                  IN  IF e = i
                      THEN MapLookup(config, <<>>) \o here
                               \o ReplaceMatches(s, i + 1, patterns, config)
                      ELSE MapLookup(config, SubSeq(s, i, e - 1))
                               \o ReplaceMatches(s, e, patterns, config)

\* patterns.push(escapeRegExp(fmt)), for every rule in order
Patterns(config) ==
    [k \in 1..Len(config.transformations) |->
        escapeRegExp(Fmt(config.transformations[k]))]

\* transform applied again to what it returned.
transformTwice(content, config) ==
    ReplaceMatches(ReplaceMatches(content, 1, Patterns(config), config),
                   1, Patterns(config), config)

\* transform replacing the first match only (a regular expression without
\* the g flag).
transformFirstOnly(content, config) ==
    LET patterns == Patterns(config)
        S == {i \in 1..(Len(content) + 1) : FirstAlternative(content, i, patterns) # 0}
    IN  IF S = {} THEN content
        ELSE LET i == CHOOSE j \in S : \A m \in S : j <= m
                 e == MatchPattern(content, i,
                          patterns[FirstAlternative(content, i, patterns)], 1)
             IN  SubSeq(content, 1, i - 1) \o MapLookup(config, SubSeq(content, i, e - 1))
                     \o SubSeq(content, e, Len(content))

transform(content, config) == ReplaceMatches(content, 1, Patterns(config), config)

(***************************************************************************)
(* Documentation scanner: extractReadme over the token stream of           *)
(* marked.lexer.                                                           *)
(***************************************************************************)
ANCHOR == "#98f5c378-5809-4e35-904e-d1c5c3a8154e"
PLACEHOLDER == <<"$", "author", "$", "project", "$">>
NoRegExp == <<>>

Heading(d) ==
    [type |-> "heading", depth |-> d, lang |-> "", text |-> <<>>, tokens |-> <<>>]
Paragraph(items) ==
    [type |-> "paragraph", depth |-> 0, lang |-> "", text |-> <<>>, tokens |-> items]
Code(l, t) ==
    [type |-> "code", depth |-> 0, lang |-> l, text |-> t, tokens |-> <<>>]
Link(h) == [type |-> "link", href |-> h]
Plain == [type |-> "text", href |-> ""]

\* The inner loop over token.tokens: some item is a link to the anchor.
HasAnchor(token) ==
    \E k \in 1..Len(token.tokens) :
        token.tokens[k].type = "link" /\ token.tokens[k].href = ANCHOR

\* The text of a collected code block as the scanner keeps it.
\* name.replace(/\-/gm, "_")
escapeVar(name) == [i \in 1..Len(name) |-> IF name[i] = "-" THEN "_" ELSE name[i]]

\* String.prototype.split(sep)
RECURSIVE SplitOn(_, _)
SplitOn(s, sep) ==
    LET S == {i \in 1..Len(s) : s[i] = sep}
    IN  IF S = {} THEN <<s>>
        ELSE LET i == CHOOSE j \in S : \A m \in S : j <= m
             IN  <<SubSeq(s, 1, i - 1)>> \o SplitOn(SubSeq(s, i + 1, Len(s)), sep)

\* getNamespace leaving the `$` of the pattern unescaped.
getNamespaceBareDollar(name) ==
    LET parts == SplitOn(escapeVar(name), "/")
    IN  IF Len(parts) < 2
        THEN [ok |-> FALSE, error |-> "Could not extract project name from elm.json",
              regExp |-> NoRegExp]
        ELSE [ok |-> TRUE, error |-> "",
              regExp |-> <<"$">> \o escapeRegExp(escapeVar(parts[1]))
                           \o <<"$">> \o escapeRegExp(escapeVar(parts[2]))
                           \o <<"$">>]

\* getNamespace without escapeVar.
getNamespaceKeepsHyphens(name) ==
    LET parts == SplitOn(name, "/")
    IN  IF Len(parts) < 2
        THEN [ok |-> FALSE, error |-> "Could not extract project name from elm.json",
              regExp |-> NoRegExp]
        ELSE [ok |-> TRUE, error |-> "",
              regExp |-> <<"\\", "$">> \o escapeRegExp(parts[1])
                           \o <<"\\", "$">> \o escapeRegExp(parts[2])
                           \o <<"\\", "$">>]

\* The source of the regular expression for a package name: \$author\$project\$
\* with both parts escaped. split always yields an author; a name without
\* "/" has no project and getNamespace throws.
getNamespace(name) ==
    LET parts == SplitOn(escapeVar(name), "/")
    IN  IF Len(parts) < 2
        THEN [ok |-> FALSE, error |-> "Could not extract project name from elm.json",
              regExp |-> NoRegExp]
        ELSE [ok |-> TRUE, error |-> "",
              regExp |-> <<"\\", "$">> \o escapeRegExp(escapeVar(parts[1]))
                           \o <<"\\", "$">> \o escapeRegExp(escapeVar(parts[2]))
                           \o <<"\\", "$">>]

\* text.replaceAll(regExp, replacement) for a regular expression with the g
\* flag whose matches are never empty: the scan resumes after each match.
RECURSIVE replaceAllRegExp(_, _, _, _)
replaceAllRegExp(s, i, re, replacement) ==
    IF i > Len(s) THEN <<>>
    ELSE LET e == MatchPattern(s, i, re, 1)
         IN  IF e <= i THEN <<s[i]>> \o replaceAllRegExp(s, i + 1, re, replacement)
             ELSE replacement \o replaceAllRegExp(s, e, re, replacement)

BlockText(token, re) ==
    spacesToTabs(
        IF re # NoRegExp THEN replaceAllRegExp(token.text, 1, re, PLACEHOLDER)
        ELSE token.text,
        FourSpaces)

\* The loop state of extractReadme; st.pc is "scan" while the loop runs,
\* "break" once a heading ended it and "error" once a throw left it.
ScanStart ==
    [pc |-> "scan", collect |-> FALSE, pending |-> FALSE, find |-> <<>>,
     transforms |-> <<>>, error |-> ""]

\* ScanStep with the heading ending collection but not the scan.
ScanStepHeadingResumes(st, token, re) ==
    LET collect == st.collect \/ (token.type = "paragraph" /\ HasAnchor(token))
    IN  IF st.collect /\ token.type = "heading" /\ token.depth < 4
        THEN [st EXCEPT !.collect = FALSE]
        ELSE IF collect /\ token.type = "code"
        THEN IF token.lang # "js"
             THEN [st EXCEPT !.pc = "error", !.collect = collect,
                             !.error = "Unexpected code block"]
             ELSE IF st.pending
             THEN [st EXCEPT !.collect = collect, !.pending = FALSE, !.find = <<>>,
                             !.transforms = Append(st.transforms,
                                 [find |-> st.find, replace |-> BlockText(token, re)])]
             ELSE [st EXCEPT !.collect = collect, !.pending = TRUE,
                             !.find = BlockText(token, re)]
        ELSE [st EXCEPT !.collect = collect]

\* ScanStep without `find = undefined` after a pair is pushed.
ScanStepKeepsFind(st, token, re) ==
    LET collect == st.collect \/ (token.type = "paragraph" /\ HasAnchor(token))
    IN  IF st.collect /\ token.type = "heading" /\ token.depth < 4
        THEN [st EXCEPT !.pc = "break"]
        ELSE IF collect /\ token.type = "code"
        THEN IF token.lang # "js"
             THEN [st EXCEPT !.pc = "error", !.collect = collect,
                             !.error = "Unexpected code block"]
             ELSE IF st.pending
             THEN [st EXCEPT !.collect = collect, !.find = BlockText(token, re),
                             !.transforms = Append(st.transforms,
                                 [find |-> st.find, replace |-> BlockText(token, re)])]
             ELSE [st EXCEPT !.collect = collect, !.pending = TRUE,
                             !.find = BlockText(token, re)]
        ELSE [st EXCEPT !.collect = collect]

\* One iteration of `for (const token of marked.lexer(content))`.
ScanStep(st, token, re) ==
    LET collect == st.collect \/ (token.type = "paragraph" /\ HasAnchor(token))
    IN  IF st.collect /\ token.type = "heading" /\ token.depth < 4
        THEN [st EXCEPT !.pc = "break"]
        ELSE IF collect /\ token.type = "code"
        THEN IF token.lang # "js"
             THEN [st EXCEPT !.pc = "error", !.collect = collect,
                             !.error = "Unexpected code block"]
             ELSE IF st.pending
             THEN [st EXCEPT !.collect = collect, !.pending = FALSE, !.find = <<>>,
                             !.transforms = Append(st.transforms,
                                 [find |-> st.find, replace |-> BlockText(token, re)])]
             ELSE [st EXCEPT !.collect = collect, !.pending = TRUE,
                             !.find = BlockText(token, re)]
        ELSE [st EXCEPT !.collect = collect]

RECURSIVE ScanLoop(_, _, _, _)
ScanLoop(st, tokens, i, re) ==
    IF i > Len(tokens) \/ st.pc # "scan" THEN st
    ELSE ScanLoop(ScanStep(st, tokens[i], re), tokens, i + 1, re)

\* ScanEnd without the check for a pending find.
ScanEndLenient(st) ==
    IF st.pc = "error" THEN [ok |-> FALSE, error |-> st.error, transforms |-> <<>>]
    ELSE [ok |-> TRUE, error |-> "", transforms |-> st.transforms]

\* After the loop: `if (find !== undefined) throw ...; return transforms`.
ScanEnd(st) ==
    IF st.pc = "error" THEN [ok |-> FALSE, error |-> st.error, transforms |-> <<>>]
    ELSE IF st.pending
    THEN [ok |-> FALSE, error |-> "Unmatched find-and-replace transformation pattern",
          transforms |-> <<>>]
    ELSE [ok |-> TRUE, error |-> "", transforms |-> st.transforms]

\* extractReadme on the tokens of an existing file.
extractReadme(tokens, re) == ScanEnd(ScanLoop(ScanStart, tokens, 1, re))

(***************************************************************************)
(* Dependency walker and transformation cache: extract, parseElmJson,      *)
(* extractDependency, needsCacheRefresh, extractWithCache.                 *)
(***************************************************************************)
Failure(msg) == [ok |-> FALSE, error |-> msg, transforms |-> <<>>]
Success(ts) == [ok |-> TRUE, error |-> "", transforms |-> ts]

\* `if (!await fs.exists(filePath)) return []`, then the scan of the file.
extractReadmeFile(file) ==
    IF ~file.exists THEN Success(<<>>) ELSE extractReadme(file.tokens, NoRegExp)

\* A key the manifest does not have reads as undefined.
NoDependencies == [direct |-> <<>>, indirect |-> <<>>]

\* parseElmJson with the indirect dependencies ahead of the direct ones.
parseElmJsonIndirectFirst(file, test) ==
    IF ~file.exists THEN [ok |-> FALSE, error |-> "Could not find elm.json",
                          dependencies |-> <<>>]
    ELSE IF ~file.json.hasVersion
    THEN [ok |-> FALSE, error |-> "Undefined elm-version field", dependencies |-> <<>>]
    ELSE LET deps == IF test THEN file.json.testDependencies
                     ELSE file.json.dependencies
         IN  [ok |-> TRUE, error |-> "", dependencies |-> deps.indirect \o deps.direct]

\* Object.entries(direct ?? {}).concat(Object.entries(indirect ?? {})): the
\* package names in the order of the file, direct ones first.
parseElmJson(file, test) ==
    IF ~file.exists THEN [ok |-> FALSE, error |-> "Could not find elm.json",
                          dependencies |-> <<>>]
    ELSE IF ~file.json.hasVersion
    THEN [ok |-> FALSE, error |-> "Undefined elm-version field", dependencies |-> <<>>]
    ELSE LET deps == IF test THEN file.json.testDependencies
                     ELSE file.json.dependencies
         IN  [ok |-> TRUE, error |-> "", dependencies |-> deps.direct \o deps.indirect]

\* The README of a dependency under <elmHome>/<version>/packages.
extractDependency(files, dependency) == extractReadmeFile(files.deps[dependency])

\* `for (const [dep, ver] of dependencies)`: the rules of each dependency
\* are pushed in turn; a throw ends the loop.
RECURSIVE DependencyLoop(_, _, _, _)
DependencyLoop(files, dependencies, i, acc) ==
    IF i > Len(dependencies) THEN Success(acc)
    ELSE LET r == extractDependency(files, dependencies[i])
         IN  IF ~r.ok THEN Failure(r.error)
             ELSE DependencyLoop(files, dependencies, i + 1, acc \o r.transforms)

extract(files, test) ==
    LET own == extractReadmeFile(files.readme)
    IN  IF ~own.ok THEN Failure(own.error)
        ELSE LET manifest == parseElmJson(files.elmJson, test)
             IN  IF ~manifest.ok THEN Failure(manifest.error)
                 ELSE DependencyLoop(files, manifest.dependencies, 1, own.transforms)

(***************************************************************************)
(* The walker of src/shell.nix: parseElmJson also returns the name of the  *)
(* package, always reads "dependencies", and errors are thrown as ElmError;*)
(* in test mode extract scans the README two directories above the project *)
(* root, with the namespace of the elm.json found there.                   *)
(***************************************************************************)
NoName == <<>>

\* parseElmJson going on without dependencies when elm.json or its
\* elm-version is missing.
parseElmJsonNixLenient(file) ==
    IF ~file.exists \/ ~file.json.hasVersion
    THEN [ok |-> TRUE, error |-> "", name |-> NoName, dependencies |-> <<>>]
    ELSE [ok |-> TRUE, error |-> "",
          name |-> IF "name" \in DOMAIN file.json THEN file.json.name ELSE NoName,
          dependencies |-> file.json.dependencies.direct
                               \o file.json.dependencies.indirect]

parseElmJsonNix(file) ==
    IF ~file.exists THEN [ok |-> FALSE, error |-> "Could not find elm.json",
                          name |-> NoName, dependencies |-> <<>>]
    ELSE IF ~file.json.hasVersion
    THEN [ok |-> FALSE, error |-> "Undefined elm-version field",
          name |-> NoName, dependencies |-> <<>>]
    ELSE [ok |-> TRUE, error |-> "",
          name |-> IF "name" \in DOMAIN file.json THEN file.json.name ELSE NoName,
          dependencies |-> file.json.dependencies.direct
                               \o file.json.dependencies.indirect]

\* extractReadme(filePath, namespace) up to the scan:
\* `regExp = namespace ? getNamespace(namespace) : undefined`.
extractReadmeNix(file, namespace) ==
    IF ~file.exists THEN Success(<<>>)
    ELSE IF namespace = NoName THEN extractReadme(file.tokens, NoRegExp)
    ELSE IF ~getNamespace(namespace).ok THEN Failure(getNamespace(namespace).error)
    ELSE extractReadme(file.tokens, getNamespace(namespace).regExp)

\* The name of a package as the characters of its key in elm.json.
PackageName(dependency) ==
    CASE dependency = "a/x" -> <<"a", "/", "x">>
      [] dependency = "b/y" -> <<"b", "/", "y">>
      [] OTHER -> <<"c", "/", "z">>

\* extractDependency passing the name of the dependency as namespace.
extractDependencyNamespaced(files, dependency) ==
    extractReadmeNix(files.deps[dependency], PackageName(dependency))

\* `return await extractReadme(markdownFile)`: no namespace.
extractDependencyNix(files, dependency) ==
    extractReadmeNix(files.deps[dependency], NoName)

RECURSIVE DependencyLoopNix(_, _, _, _)
DependencyLoopNix(files, dependencies, i, acc) ==
    IF i > Len(dependencies) THEN Success(acc)
    ELSE LET r == extractDependencyNix(files, dependencies[i])
         IN  IF ~r.ok THEN Failure(r.error)
             ELSE DependencyLoopNix(files, dependencies, i + 1, acc \o r.transforms)

\* extract(projectRoot, elmHome, test); parent holds the elm.json and the
\* README.md of projectRoot/../..
extractNix(files, parent, test) ==
    LET manifest == parseElmJsonNix(files.elmJson)
        readmeFile == IF test THEN parent.readme ELSE files.readme
        above == parseElmJsonNix(parent.elmJson)
    IN  IF ~manifest.ok THEN Failure(manifest.error)
        ELSE IF test /\ ~above.ok THEN Failure(above.error)
        ELSE LET own == extractReadmeNix(readmeFile,
                                         IF test THEN above.name ELSE NoName)
             IN  IF ~own.ok THEN Failure(own.error)
                 ELSE DependencyLoopNix(files, manifest.dependencies, 1,
                                        own.transforms)

PositiveInfinity == 1000000

\* (await Deno.stat(filePath)).mtime?.getTime() ?? fallback, and the
\* fallback when the file is not found.
getModificationTime(file, fallback) == IF file.exists THEN file.mtime ELSE fallback

\* isModifiedAfter comparing with >= in place of >.
isModifiedAfterOrAt(src, dest) ==
    getModificationTime(src, PositiveInfinity) >= getModificationTime(dest, 0)

isModifiedAfter(src, dest) ==
    getModificationTime(src, PositiveInfinity) > getModificationTime(dest, 0)

\* needsCacheRefresh looking at the READMEs of the packages as well.
needsCacheRefreshPackages(files, transformationsFile) ==
    IF ~transformationsFile.exists THEN TRUE
    ELSE \/ isModifiedAfter(files.elmJson, transformationsFile)
         \/ isModifiedAfter(files.readme, transformationsFile)
         \/ \E d \in DOMAIN files.deps :
               getModificationTime(files.deps[d], 0) > getModificationTime(transformationsFile, 0)

needsCacheRefresh(files, transformationsFile) ==
    IF ~transformationsFile.exists THEN TRUE
    ELSE isModifiedAfter(files.elmJson, transformationsFile)
             \/ isModifiedAfter(files.readme, transformationsFile)

\* JSON.stringify and JSON.parse of an array of {find, replace} objects
\* whose fields are strings: the text holds the pairs in order.
JSONstringify(ts) == [json |-> "array", items |-> ts]
JSONparse(text) == text.items

NoFile == [exists |-> FALSE, mtime |-> 0, text |-> JSONstringify(<<>>)]

Absent == [exists |-> FALSE, mtime |-> 0, tokens |-> <<>>]
Manifest(v, deps, testDeps) ==
    [hasVersion |-> v, dependencies |-> deps, testDependencies |-> testDeps]
NoManifest == [exists |-> FALSE, mtime |-> 0,
               json |-> Manifest(FALSE, NoDependencies, NoDependencies)]
Packages == {"a/x", "b/y", "c/z"}
NoFiles == [elmJson |-> NoManifest, readme |-> Absent,
            deps |-> [d \in Packages |-> Absent],
            cache |-> [t \in BOOLEAN |-> NoFile]]
NoCall == [made |-> FALSE, test |-> FALSE, refresh |-> FALSE, before |-> NoFiles,
           extracted |-> FALSE, wrote |-> FALSE, result |-> NotRun]
NoParent == [elmJson |-> NoManifest, readme |-> Absent]
NoWalk == [test |-> FALSE, parent |-> NoParent, ts |-> NotRun, nix |-> NotRun]

\* extractWithCache keeping the rules of both modes in transformations.json.
extractWithCacheOnePath(files, time, test, refresh) ==
    LET transformationsFile == files.cache[FALSE]
        changed == IF refresh THEN refresh
                   ELSE needsCacheRefresh(files, transformationsFile)
        transformations == extract(files, test)
    IN  IF ~changed
        THEN [extracted |-> FALSE, wrote |-> FALSE,
              result |-> Success(JSONparse(transformationsFile.text)), files |-> files]
        ELSE IF ~transformations.ok
        THEN [extracted |-> TRUE, wrote |-> FALSE,
              result |-> transformations, files |-> files]
        ELSE [extracted |-> TRUE, wrote |-> TRUE, result |-> transformations,
              files |-> [files EXCEPT !.cache[FALSE] =
                  [exists |-> TRUE, mtime |-> time,
                   text |-> JSONstringify(transformations.transforms)]]]

\* extractWithCache rewriting the artifact with what it read when the cache
\* is fresh.
extractWithCacheTouching(files, time, test, refresh) ==
    LET transformationsFile == files.cache[test]
        changed == IF refresh THEN refresh
                   ELSE needsCacheRefresh(files, transformationsFile)
        transformations == extract(files, test)
    IN  IF ~changed
        THEN [extracted |-> FALSE, wrote |-> TRUE,
              result |-> Success(JSONparse(transformationsFile.text)),
              files |-> [files EXCEPT !.cache[test].mtime = time]]
        ELSE IF ~transformations.ok
        THEN [extracted |-> TRUE, wrote |-> FALSE,
              result |-> transformations, files |-> files]
        ELSE [extracted |-> TRUE, wrote |-> TRUE, result |-> transformations,
              files |-> [files EXCEPT !.cache[test] =
                  [exists |-> TRUE, mtime |-> time,
                   text |-> JSONstringify(transformations.transforms)]]]

\* The outcome of extractWithCache(projectRoot, elmHome, test, refresh) on
\* the files: what the call returns or throws, and the files afterwards.
\* The artifact is transformations.test.json or transformations.json.
extractWithCache(files, time, test, refresh) ==
    LET transformationsFile == files.cache[test]
        changed == IF refresh THEN refresh
                   ELSE needsCacheRefresh(files, transformationsFile)
    IN  IF ~changed
        THEN [extracted |-> FALSE, wrote |-> FALSE,
              result |-> Success(JSONparse(transformationsFile.text)), files |-> files]
        ELSE LET transformations == extract(files, test)
             IN  IF ~transformations.ok
                 THEN [extracted |-> TRUE, wrote |-> FALSE,
                       result |-> transformations, files |-> files]
                 ELSE [extracted |-> TRUE, wrote |-> TRUE, result |-> transformations,
                       files |-> [files EXCEPT !.cache[test] =
                           [exists |-> TRUE, mtime |-> time,
                            text |-> JSONstringify(transformations.transforms)]]]

(***************************************************************************)
(* Build pipeline: elm, run, postprocess, modularize, typescript.          *)
(***************************************************************************)
Paths == {"output", "temp", "bindings"}
Missing == <<"<missing>">>
NoOptions == [module |-> FALSE, typescript |-> "", debug |-> FALSE,
              transformations |-> <<>>, optimize |-> 0, minify |-> FALSE,
              test |-> FALSE]

\* The config elm derives from its options: typescript implies module and
\* defaults to "deno".
Config(opts) ==
    [module |-> IF opts.typescript # "" THEN TRUE ELSE opts.module,
     typescript |-> IF opts.typescript # "" THEN opts.typescript ELSE "deno",
     debug |-> opts.debug, test |-> opts.test,
     transformations |-> opts.transformations,
     optimize |-> opts.optimize, minify |-> opts.minify]

\* needsTempFile with --optimize counted at every level above 0.
needsTempFileAnyOptimize(config) ==
    \/ config.module
    \/ Len(config.transformations) > 0
    \/ config.optimize > 0
    \/ config.minify

needsTempFile(config) ==
    \/ config.module
    \/ Len(config.transformations) > 0
    \/ config.optimize > 1
    \/ config.minify

\* `--output=${out}`
OutPath(config) == IF needsTempFile(config) THEN "temp" ELSE "output"

\* content.replace(/\(this\)\)\;$/g, "(scope));") between the two lines
\* modularize adds: only the end of the text can match.
modularize(text) ==
    <<"const scope = {};", "\n">>
        \o (IF text # <<>> /\ text[Len(text)] = "(this));"
            THEN SubSeq(text, 1, Len(text) - 1) \o <<"(scope));">>
            ELSE text)
        \o <<"\n", " export default scope.Elm;">>

\* elm-optimize-level-2 and terser are libraries: their results are kept as
\* the call that produced them.
optimize(text, o3) == <<IF o3 THEN "optimizeO3(" ELSE "optimizeO2(">> \o text \o <<")">>
minify(text) == <<"minify(">> \o text \o <<")">>

\* The part of postprocess between the read and the next await, with
\* modularize ahead of transform.
SyncStepsModularizeFirst(text, config) ==
    LET modularized == IF config.module THEN modularize(text) ELSE text
    IN  IF Len(config.transformations) > 0
        THEN transform(modularized, config) ELSE modularized

\* The part of postprocess between the read and the next await: transform
\* when there are rules, then modularize when a module is built.
SyncSteps(text, config) ==
    LET transformed == IF Len(config.transformations) > 0
                       THEN transform(text, config) ELSE text
    IN  IF config.module THEN modularize(transformed) ELSE transformed

\* A step of the build and the file it reads or writes, if any.
Event(step, path) == [step |-> step, path |-> path]

SyncTrace(config) ==
    (IF Len(config.transformations) > 0 THEN <<Event("transform", "")>> ELSE <<>>)
        \o (IF config.module THEN <<Event("modularize", "")>> ELSE <<>>)

\* AwaitAfter with terser ahead of elm-optimize-level-2.
AwaitAfterMinifyFirst(step, config) ==
    IF step = "read" /\ config.minify # FALSE THEN "minify"
    ELSE IF step \in {"read", "minify"} /\ config.optimize > 1 THEN "optimize"
    ELSE "write"

\* The await postprocess reaches after the step it is at.
AwaitAfter(step, config) ==
    IF step = "read" /\ config.optimize > 1 THEN "optimize"
    ELSE IF step \in {"read", "optimize"} /\ config.minify # FALSE THEN "minify"
    ELSE "write"

(***************************************************************************)
(* Specification of the scanner: a README is chosen, extractReadme runs.   *)
(***************************************************************************)
NsPattern == getNamespace(<<"acme", "/", "widgets">>).regExp
NsText == <<"$", "acme", "$", "widgets", "$">>
TextA == <<"a">>
TextB == FourSpaces \o NsText \o <<"f">>

TokenSet ==
    { Heading(3), Heading(4),
      Paragraph(<<Plain, Link("#other"), Link(ANCHOR)>>),
      Paragraph(<<Plain, Link("#other")>>),
      Code("js", TextA), Code("js", TextB), Code("sh", TextA) }

ScanIdle == doc = <<>> /\ regExp = NoRegExp /\ scanOut = NotRun

PreIdle == preContent = <<>> /\ preConfig = [debug |-> FALSE, test |-> FALSE]
              /\ preOut = Pending

TrIdle == trContent = <<>> /\ trOut = Pending
             /\ trConfig = [transformations |-> <<>>, debug |-> FALSE, test |-> FALSE]

NsIdle == nsName = <<>> /\ nsText = <<>> /\ nsOut = Pending

BuildIdle ==
    /\ buildOptions = NoOptions /\ pc = "idle" /\ buildContent = <<>>
    /\ disk = [p \in Paths |-> Missing] /\ trace = <<>>
    /\ status = "none" /\ bindings = "none"

WalkIdle == walk = NoWalk

\* No process: nothing was started.
NoError == [kind |-> "none", message |-> "none"]
NoProc == [pc |-> "none", main |-> FALSE, transform |-> FALSE,
           fault |-> "none", error |-> NoError, promise |-> "none",
           handled |-> FALSE, console |-> <<>>, exit |-> -1, caught |-> NoError]
CliIdle == proc = NoProc

NoTab == [text |-> <<>>, ts |-> Pending, nix |-> Pending]
TabIdle == tab = NoTab

Builds == {1, 2}
NoBuild == [pc |-> "none", refresh |-> FALSE, changed |-> FALSE, ext |-> NotRun,
            served |-> FALSE, current |-> NotRun, result |-> NotRun]
NoRace == [test |-> FALSE, edited |-> FALSE, late |-> FALSE, b |-> [p \in Builds |-> NoBuild]]
RaceIdle == race = NoRace

CacheIdle == fs = NoFiles /\ now = 0 /\ call = NoCall /\ ncalls = 0

ScanInit ==
    /\ PreIdle /\ TrIdle /\ CacheIdle /\ BuildIdle /\ NsIdle /\ WalkIdle /\ CliIdle /\ TabIdle /\ RaceIdle
    /\ \E k \in 0..MaxTokens : doc \in [1..k -> TokenSet]
    /\ regExp \in IF Len(doc) <= MaxNsTokens THEN {NoRegExp, NsPattern}
                   ELSE {NoRegExp}
    /\ scanOut = NotRun

ExtractReadme ==
    /\ scanOut = NotRun
    /\ scanOut' = extractReadme(doc, regExp)
    /\ UNCHANGED <<doc, regExp>>
    /\ UNCHANGED <<preVars, trVars, cacheVars, buildVars, nsVars, walkVars, cliVars, tabVars, raceVars>>

ScanNext == ExtractReadme

SpecScan == ScanInit /\ [][ScanNext]_vars

(***************************************************************************)
(* What the documentation says is collected: the code blocks between the   *)
(* first paragraph that links to the anchor and the first heading of depth *)
(* 1-3 after it.                                                           *)
(***************************************************************************)
AnchorIdx(tokens) ==
    LET S == {i \in 1..Len(tokens) :
                 tokens[i].type = "paragraph" /\ HasAnchor(tokens[i])}
    IN  IF S = {} THEN 0 ELSE CHOOSE i \in S : \A j \in S : i <= j

StopIdx(tokens) ==
    LET a == AnchorIdx(tokens)
        S == {i \in (a + 1)..Len(tokens) :
                 tokens[i].type = "heading" /\ tokens[i].depth \in 1..3}
    IN  IF a = 0 \/ S = {} THEN Len(tokens) + 1
        ELSE CHOOSE i \in S : \A j \in S : i <= j

Blocks(tokens) ==
    LET a == AnchorIdx(tokens)
    IN  IF a = 0 THEN {}
        ELSE {i \in (a + 1)..(StopIdx(tokens) - 1) : tokens[i].type = "code"}

\* The k-th collected block, in document order (k from 1).
NthBlock(tokens, k) ==
    LET B == Blocks(tokens)
    IN  CHOOSE i \in B : Cardinality({j \in B : j < i}) = k - 1

AllJs(tokens) == \A i \in Blocks(tokens) : tokens[i].lang = "js"
EvenBlocks(tokens) == Cardinality(Blocks(tokens)) % 2 = 0

\* The anchor paragraph and what follows it up to the ending heading.
Restrict(tokens) ==
    IF AnchorIdx(tokens) = 0 THEN <<>>
    ELSE SubSeq(tokens, AnchorIdx(tokens), StopIdx(tokens) - 1)

ScanRan == scanOut # NotRun

\* C1: when the blocks between the anchor and the ending heading are 2n
\* blocks all tagged js, extractReadme returns n Transforms in document
\* order, Transform i pairing the scanner's text of block 2i (find) with
\* the scanner's text of block 2i+1 (replace).
C1_Pairing ==
    (ScanRan /\ AllJs(doc) /\ EvenBlocks(doc)) =>
        /\ scanOut.ok
        /\ Len(scanOut.transforms) * 2 = Cardinality(Blocks(doc))
        /\ \A i \in 1..Len(scanOut.transforms) :
              /\ scanOut.transforms[i].find =
                     BlockText(doc[NthBlock(doc, 2 * i - 1)], regExp)
              /\ scanOut.transforms[i].replace =
                     BlockText(doc[NthBlock(doc, 2 * i)], regExp)

C1_Witness ==
    /\ ScanRan /\ AllJs(doc) /\ Cardinality(Blocks(doc)) = 4
    /\ Len(scanOut.transforms) = 2
    /\ scanOut.transforms[1].find # scanOut.transforms[2].find
    /\ scanOut.transforms[1].find # scanOut.transforms[1].replace
    /\ StopIdx(doc) <= Len(doc)

\* C2: extractReadme throws, returning no Transform sequence, when a block
\* met while collecting is not tagged js, or when the number of collected
\* blocks is odd, whether the scan ended at a heading or at the end.
C2_Malformed ==
    (ScanRan /\ (~AllJs(doc) \/ ~EvenBlocks(doc))) =>
        /\ ~scanOut.ok
        /\ scanOut.transforms = <<>>
        /\ scanOut.error = IF ~AllJs(doc) THEN "Unexpected code block"
                           ELSE "Unmatched find-and-replace transformation pattern"

C2_Witness ==
    /\ ScanRan /\ AllJs(doc) /\ ~EvenBlocks(doc)
    /\ StopIdx(doc) <= Len(doc)
    /\ Cardinality(Blocks(doc)) = 3
    /\ ~scanOut.ok

C2_WitnessLang ==
    /\ ScanRan /\ ~AllJs(doc) /\ EvenBlocks(doc)
    /\ scanOut.error = "Unexpected code block"

\* C3: only the blocks after the first anchor paragraph and before the
\* first following heading of depth 1-3 count: the result is decided by
\* them alone, blocks outside are neither collected nor checked, a later
\* anchor does not restart collection, headings of depth 4-6 do not end it.
C3_Segment ==
    ScanRan =>
        /\ scanOut.ok <=> (AllJs(doc) /\ EvenBlocks(doc))
        /\ scanOut.ok => Len(scanOut.transforms) * 2 = Cardinality(Blocks(doc))
        /\ scanOut = extractReadme(Restrict(doc), regExp)

\* A README with a block of another language before the anchor, a depth-4
\* heading between the two collected blocks, and after the ending heading
\* a second anchor.
C3_Witness ==
    /\ ScanRan /\ scanOut.ok /\ Len(scanOut.transforms) = 1
    /\ \E i \in 1..(AnchorIdx(doc) - 1) : doc[i].type = "code" /\ doc[i].lang # "js"
    /\ \E i \in (AnchorIdx(doc) + 1)..(StopIdx(doc) - 1) :
          doc[i].type = "heading" /\ doc[i].depth = 4
    /\ StopIdx(doc) <= Len(doc)

(***************************************************************************)
(* Specification of the preprocessor: a replacement text and a flag        *)
(* configuration are chosen, preprocess runs.                              *)
(***************************************************************************)
LineIfDebug == <<"//", " ", "@IF", " ", "debug">>
LineUnlessTest == <<"//", " ", "@UNLESS", " ", "test">>
LineEnd == <<"//", " ", "@END">>
LineA == <<"A">>
LineB == <<"B">>
LineIfTest == <<"\t", "//", " ", " ", "@IF", " ", "test", " ", "A">>
LineIfBogus == <<"//", " ", "@IF", " ", "bogus">>
LineTabA == <<"\t", "\t", "A">>
LineATabB == <<"A", "\t", "B">>
LineNoSpace == <<"//", "@END">>

CoreLines == {LineIfDebug, LineUnlessTest, LineEnd, LineA, LineB}
MixedLines == CoreLines \cup
    {LineIfTest, LineIfBogus, LineTabA, LineATabB, LineNoSpace, <<>>}

PreInit ==
    /\ ScanIdle /\ TrIdle /\ CacheIdle /\ BuildIdle /\ NsIdle /\ WalkIdle /\ CliIdle /\ TabIdle /\ RaceIdle
    /\ \E ls \in UNION {[1..k -> CoreLines] : k \in 0..MaxLines} \cup
                  UNION {[1..k -> MixedLines] : k \in 0..MaxMixedLines} :
          preContent = JoinLines(ls)
    /\ preConfig \in [debug : BOOLEAN, test : BOOLEAN]
    /\ preOut = Pending

Preprocess ==
    /\ preOut = Pending
    /\ preOut' = preprocess(preContent, preConfig)
    /\ UNCHANGED <<preContent, preConfig>>
    /\ UNCHANGED <<scanVars, trVars, cacheVars, buildVars, nsVars, walkVars, cliVars, tabVars, raceVars>>

PreNext == Preprocess

SpecPre == PreInit /\ [][PreNext]_vars

(***************************************************************************)
(* The block structure of a text as its documentation describes it.        *)
(***************************************************************************)
\* The line is `// @IF ...` or `// @UNLESS ...`, whatever the flag.
IsOpener(line) ==
    /\ WordAt(Words(line), 1) = <<"//">>
    /\ WordAt(Words(line), 2) \in {<<"@IF">>, <<"@UNLESS">>}
IsCloser(line) ==
    /\ WordAt(Words(line), 1) = <<"//">>
    /\ WordAt(Words(line), 2) = <<"@END">>
IsMarker(line) == IsOpener(line) \/ IsCloser(line)
KnownFlag(line) == WordAt(Words(line), 3) \in FlagVars
Requires(line) == WordAt(Words(line), 2) = <<"@IF">>

\* The kind of every line: "open", "close" or "text".
RECURSIVE LineKinds(_)
LineKinds(ls) ==
    IF ls = <<>> THEN <<>>
    ELSE <<IF IsOpener(Head(ls)) THEN "open"
           ELSE IF IsCloser(Head(ls)) THEN "close" ELSE "text">>
             \o LineKinds(Tail(ls))

\* The block opened at line j is closed by the first later line at which
\* the closers after j outnumber the openers after j.
ClosedBy(kinds, j, k) ==
    Cardinality({m \in (j + 1)..k : kinds[m] = "close"}) >
        Cardinality({m \in (j + 1)..k : kinds[m] = "open"})

OpenAt(kinds, i) ==
    {j \in 1..(i - 1) : kinds[j] = "open" /\ \A k \in (j + 1)..i : ~ClosedBy(kinds, j, k)}

Included(ls, kinds, i, config) ==
    /\ kinds[i] = "text"
    /\ \A j \in OpenAt(kinds, i) :
          Requires(ls[j]) = FlagValue(config, WordAt(Words(ls[j]), 3))

RECURSIVE IncludedFrom(_, _, _, _)
IncludedFrom(ls, kinds, i, config) ==
    IF i > Len(ls) THEN <<>>
    ELSE (IF Included(ls, kinds, i, config) THEN <<ls[i]>> ELSE <<>>)
             \o IncludedFrom(ls, kinds, i + 1, config)

IncludedLines(ls, config) == IncludedFrom(ls, LineKinds(ls), 1, config)

DeTab(s) == SelectSeq(s, LAMBDA c : c # "\t")

PreRan == preOut # Pending
FlagsKnown(ls) == \A i \in 1..Len(ls) : IsOpener(ls[i]) => KnownFlag(ls[i])
AllFlagsKnown == FlagsKnown(SplitLines(preContent))
EmittedAsDocumented(ls) ==
    FlagsKnown(ls) => DeTab(preOut) = DeTab(JoinLines(IncludedLines(ls, preConfig)))
DocExample == JoinLines(<<LineIfDebug, LineA, LineUnlessTest, LineB, LineEnd, LineEnd>>)

\* C5: over texts whose @IF/@UNLESS markers name flags of the flag set,
\* preprocess emits exactly the non-marker lines all of whose open blocks
\* are satisfied (@IF requires the flag true, @UNLESS false), in their
\* order; marker lines are never emitted.  Lines are compared up to the
\* indentation the preprocessor strips.
C5_Conditional == PreRan => EmittedAsDocumented(SplitLines(preContent))

\* The example of the documentation: A is emitted, B only when test is false.
C5_Example ==
    (PreRan /\ Len(preContent) = Len(DocExample) /\ preContent = DocExample
        /\ preConfig.debug) =>
        preOut = IF preConfig.test THEN <<"A">> ELSE <<"A", "\n", "B">>

C5_Theorem == C5_Conditional /\ C5_Example

C5_Witness ==
    /\ PreRan
    /\ preContent = DocExample
    /\ preConfig = [debug |-> TRUE, test |-> TRUE]
    /\ preOut = <<"A">>

(***************************************************************************)
(* Specification of the applier: compiled code and a rule list are chosen, *)
(* transform runs.                                                         *)
(***************************************************************************)
RuleDollar == [find |-> <<"$">>, replace |-> <<"Y">>]
RuleIndented ==
    [find |-> <<" ", " ", "a">>,
     replace |-> LineIfDebug \o <<"\n", "$", "\n">> \o LineEnd]
RulePrefixed == [find |-> <<"$", "a">>, replace |-> <<"Z">>]
RuleAgain == [find |-> <<"$">>, replace |-> <<" ", " ", "W">>]
RuleEmpty == [find |-> <<>>, replace |-> <<"E">>]

RuleSet == {RuleDollar, RuleIndented, RulePrefixed, RuleAgain, RuleEmpty}
ContentChars == {"a", "$", "\t"}

TrInit ==
    /\ ScanIdle /\ PreIdle /\ CacheIdle /\ BuildIdle /\ NsIdle /\ WalkIdle /\ CliIdle /\ TabIdle /\ RaceIdle
    /\ \E k \in 0..MaxContent : trContent \in [1..k -> ContentChars]
    /\ \E k \in 1..MaxRules : \E rules \in [1..k -> RuleSet], d \in BOOLEAN :
          trConfig = [transformations |-> rules, debug |-> d, test |-> FALSE]
    /\ trOut = Pending

\* postprocess: `if (config.transformations.length > 0) content = transform(...)`
Transform ==
    /\ trOut = Pending
    /\ Len(trConfig.transformations) > 0
    /\ trOut' = transform(trContent, trConfig)
    /\ UNCHANGED <<trContent, trConfig>>
    /\ UNCHANGED <<scanVars, preVars, cacheVars, buildVars, nsVars, walkVars, cliVars, tabVars, raceVars>>

TrNext == Transform

SpecTransform == TrInit /\ [][TrNext]_vars

(***************************************************************************)
(* What the applier is documented to produce when the find texts are       *)
(* non-empty and do not overlap.                                           *)
(***************************************************************************)
\* f, placed somewhere, can share characters with an occurrence of g: a
\* suffix of f is a prefix of g, or g lies inside f.
SharesWith(f, g, proper) ==
    \/ \E n \in 1..Len(f) :
          /\ n <= Len(g)
          /\ (proper => n < Len(f))
          /\ SubSeq(f, Len(f) - n + 1, Len(f)) = SubSeq(g, 1, n)
    \/ \E i \in 2..Len(f) : ~proper /\ MatchAt(f, i, g)

FindsOf(config) ==
    [k \in 1..Len(config.transformations) |-> Fmt(config.transformations[k])]

NonEmptyFinds(config) == \A k \in 1..Len(config.transformations) : FindsOf(config)[k] # <<>>

NonOverlapping(config) ==
    \A k, m \in 1..Len(config.transformations) :
        ~SharesWith(FindsOf(config)[k], FindsOf(config)[m], k = m)

\* The rules whose find occurs at position i of the text.
OccursAt(content, config, i) ==
    {k \in 1..Len(config.transformations) : MatchAt(content, i, FindsOf(config)[k])}

Covered(content, config, i) ==
    \E j \in 1..(i - 1) : \E k \in OccursAt(content, config, j) :
        j + Len(FindsOf(config)[k]) > i

\* Position by position: the replacement where a find starts, nothing
\* inside an occurrence, the character itself elsewhere.
Substituted(content, config) ==
    Flatten([i \in 1..Len(content) |->
        IF OccursAt(content, config, i) # {}
        THEN Replacement(
                 config.transformations[CHOOSE k \in OccursAt(content, config, i) : TRUE],
                 config)
        ELSE IF Covered(content, config, i) THEN <<>>
        ELSE <<content[i]>>])

NoOccurrence(content, config) ==
    \A i \in 1..Len(content) : OccursAt(content, config, i) = {}

TrRan == trOut # Pending

\* C4: for rule sets whose (whitespace-normalized) find texts are non-empty
\* and pairwise non-overlapping, transform returns the source with every
\* occurrence of each find replaced by that rule's preprocessed replacement
\* and the text outside the matches unchanged; a source in which no find
\* occurs is returned unchanged.
C4_Substitution ==
    (TrRan /\ NonEmptyFinds(trConfig) /\ NonOverlapping(trConfig)) =>
        /\ trOut = Substituted(trContent, trConfig)
        /\ NoOccurrence(trContent, trConfig) => trOut = trContent

\* "a$a$a" under the rule $ -> Y gives "aYaYa".
C4_Witness ==
    /\ TrRan
    /\ trConfig.transformations = <<RuleDollar>>
    /\ trContent = <<"a", "$", "a", "$", "a">>
    /\ trOut = <<"a", "Y", "a", "Y", "a">>

(***************************************************************************)
(* Specification of the cache: a project directory is chosen (elm.json,    *)
(* README.md, the READMEs of the installed packages, the artifacts an      *)
(* earlier run left), then extractWithCache is called.                     *)
(***************************************************************************)
AnchorParagraph == Paragraph(<<Link(ANCHOR)>>)
RuleDoc(f, r) == <<AnchorParagraph, Code("js", <<f>>), Code("js", <<r>>)>>
OddDoc(f) == <<AnchorParagraph, Code("js", <<f>>)>>
File(tokens, t) == [exists |-> TRUE, mtime |-> t, tokens |-> tokens]

ReadmeDocs == {RuleDoc("p", "r"), OddDoc("p")}
ManifestSet ==
    { Manifest(TRUE, [direct |-> <<"c/z", "b/y">>, indirect |-> <<"a/x">>],
                     [direct |-> <<"a/x">>, indirect |-> <<"b/y">>]),
      Manifest(TRUE, [direct |-> <<"a/x">>, indirect |-> <<"c/z", "b/y">>],
                     NoDependencies),
      Manifest(FALSE, NoDependencies, NoDependencies) }
\* c/z ships no README, b/y ships one rule, a/x varies.
PackageDocs ==
    { [d \in Packages |-> CASE d = "c/z" -> Absent
                             [] d = "b/y" -> File(RuleDoc("y", "2"), 0)
                             [] OTHER -> ax] :
        ax \in {Absent, File(RuleDoc("x", "1"), 0), File(OddDoc("x"), 0)} }

\* What an earlier run over earlier versions of the files stored.
EarlierFiles ==
    { [NoFiles EXCEPT !.elmJson = [exists |-> TRUE, mtime |-> 0, json |-> m],
                      !.readme = r, !.deps = ds] :
        m \in ManifestSet, r \in {File(RuleDoc("p", "q"), 0)},
        ds \in PackageDocs }
CachedTexts ==
    { JSONstringify(extract(f, FALSE).transforms) :
        f \in {g \in EarlierFiles : extract(g, FALSE).ok} }
Artifacts(t) ==
    {NoFile} \cup { [exists |-> TRUE, mtime |-> m, text |-> x] :
                       m \in 0..t, x \in CachedTexts }

CacheInit ==
    /\ ScanIdle /\ PreIdle /\ TrIdle /\ BuildIdle /\ NsIdle /\ WalkIdle /\ CliIdle /\ TabIdle /\ RaceIdle
    /\ now \in 0..MaxTime
    /\ \E e \in {NoManifest} \cup
                 { [exists |-> TRUE, mtime |-> m, json |-> j] :
                     m \in 0..now, j \in ManifestSet },
          r \in {Absent} \cup { File(d, m) : d \in ReadmeDocs, m \in 0..now },
          ds \in PackageDocs,
          c \in [BOOLEAN -> Artifacts(now)] :
            /\ \E t \in BOOLEAN : c[t] = NoFile
            /\ fs = [elmJson |-> e, readme |-> r, deps |-> ds, cache |-> c]
    /\ call = NoCall
    /\ ncalls = 0

ExtractWithCache(test, refresh) ==
    /\ ncalls < MaxCalls
    /\ LET r == extractWithCache(fs, now, test, refresh)
       IN  /\ fs' = r.files
           /\ call' = [made |-> TRUE, test |-> test, refresh |-> refresh,
                       before |-> fs, extracted |-> r.extracted,
                       wrote |-> r.wrote, result |-> r.result]
    /\ ncalls' = ncalls + 1
    /\ UNCHANGED now
    /\ UNCHANGED <<scanVars, preVars, trVars, buildVars, nsVars, walkVars, cliVars, tabVars, raceVars>>

Tick ==
    /\ now < MaxTime
    /\ now' = now + 1
    /\ UNCHANGED <<fs, call, ncalls>>
    /\ UNCHANGED <<scanVars, preVars, trVars, buildVars, nsVars, walkVars, cliVars, tabVars, raceVars>>

CacheNext ==
    \/ \E test \in BOOLEAN, refresh \in BOOLEAN : ExtractWithCache(test, refresh)
    \/ Tick

SpecCache == CacheInit /\ [][CacheNext]_vars

(***************************************************************************)
(* The cache as documented.                                                *)
(***************************************************************************)
ArtifactBefore == call.before.cache[call.test]

\* refresh, or no artifact, or elm.json or README.md missing, or one of them
\* stamped strictly later than the artifact.
Stale ==
    \/ call.refresh
    \/ ~ArtifactBefore.exists
    \/ ~call.before.elmJson.exists
    \/ ~call.before.readme.exists
    \/ call.before.elmJson.mtime > ArtifactBefore.mtime
    \/ call.before.readme.mtime > ArtifactBefore.mtime

\* C6: extractWithCache runs the extraction exactly when refresh is true, or
\* the artifact is missing, or elm.json or README.md is missing, or one of
\* them has a modification time strictly greater than the artifact's; the
\* extracted rules are then stored in the artifact of the mode and returned.
\* Otherwise (equal modification times included) the artifact is what the
\* call returns.
C6_Staleness ==
    call.made =>
        /\ call.extracted <=> Stale
        /\ call.extracted /\ call.result.ok =>
              /\ call.wrote
              /\ fs.cache[call.test].exists
              /\ fs.cache[call.test].text = JSONstringify(call.result.transforms)
        /\ ~call.extracted => call.result = Success(JSONparse(ArtifactBefore.text))

\* elm.json, README.md and the artifact carry the same modification time,
\* refresh is false: the artifact is returned.
C6_Witness ==
    /\ call.made /\ ~call.refresh /\ ~call.extracted
    /\ call.before.elmJson.exists /\ call.before.readme.exists
    /\ call.before.elmJson.mtime = ArtifactBefore.mtime
    /\ call.before.readme.mtime = ArtifactBefore.mtime

\* README.md is stamped one tick after the artifact, elm.json before it:
\* the rules are extracted and stored.
C6_WitnessNewer ==
    /\ call.made /\ ~call.refresh /\ call.extracted /\ call.wrote
    /\ ArtifactBefore.exists /\ call.before.elmJson.exists
    /\ call.before.readme.exists
    /\ call.before.elmJson.mtime < ArtifactBefore.mtime
    /\ call.before.readme.mtime = ArtifactBefore.mtime + 1

NewerThanBoth ==
    /\ call.made /\ ~call.refresh
    /\ ArtifactBefore.exists
    /\ call.before.elmJson.exists /\ call.before.readme.exists
    /\ ArtifactBefore.mtime > call.before.elmJson.mtime
    /\ ArtifactBefore.mtime > call.before.readme.mtime

\* C7: with the artifact newer than both elm.json and README.md and refresh
\* false, extractWithCache returns exactly the parsed content of the
\* artifact, runs no extraction and writes nothing: every file is as it was.
C7_CachedUnchanged ==
    NewerThanBoth =>
        /\ ~call.extracted /\ ~call.wrote
        /\ call.result = Success(JSONparse(ArtifactBefore.text))
        /\ fs = call.before

\* The artifact is returned although extracting from the files as they are
\* would give other rules.
C7_Witness ==
    /\ NewerThanBoth
    /\ extract(call.before, call.test).ok
    /\ extract(call.before, call.test).transforms # call.result.transforms
    /\ call.result.transforms # <<>>

\* The rules a README holds: none when the file is absent.
RulesOf(file) ==
    IF file.exists THEN extractReadme(file.tokens, NoRegExp).transforms ELSE <<>>
WellFormed(file) == file.exists => extractReadme(file.tokens, NoRegExp).ok

\* The packages of the manifest in its order, direct ones before indirect.
ManifestOrder(files, test) ==
    LET deps == IF test THEN files.elmJson.json.testDependencies
                ELSE files.elmJson.json.dependencies
    IN  deps.direct \o deps.indirect

Extractable(files, test) ==
    /\ files.elmJson.exists /\ files.elmJson.json.hasVersion
    /\ WellFormed(files.readme)
    /\ \A i \in 1..Len(ManifestOrder(files, test)) :
          WellFormed(files.deps[ManifestOrder(files, test)[i]])

\* C8: extract returns the rules of the project's README first, then the
\* rules of each dependency in manifest order, direct dependencies before
\* indirect ones; a dependency without a README adds nothing, raises no
\* error and the dependencies after it are still extracted.
C8_Order ==
    call.made /\ call.extracted /\ Extractable(call.before, call.test) =>
        LET order == ManifestOrder(call.before, call.test)
        IN  call.result = Success(
                RulesOf(call.before.readme) \o
                Flatten([i \in 1..Len(order) |-> RulesOf(call.before.deps[order[i]])]))

\* c/z has no README and comes first; the project, b/y and a/x each add
\* their rule after it.
C8_Witness ==
    /\ call.made /\ call.extracted /\ Extractable(call.before, call.test)
    /\ RulesOf(call.before.readme) # <<>>
    /\ Len(call.result.transforms) = 3
    /\ LET order == ManifestOrder(call.before, call.test)
       IN  \E i, j \in 1..Len(order) :
              /\ i < j
              /\ ~call.before.deps[order[i]].exists
              /\ RulesOf(call.before.deps[order[j]]) # <<>>

(***************************************************************************)
(* Specification of a build: elm is called with some options, the compiler *)
(* exits, postprocess runs from await to await.                            *)
(***************************************************************************)
RuleThis == [find |-> <<"(this));">>, replace |-> <<"(window));">>]
OptionSet ==
    [module : BOOLEAN, typescript : {"", "deno", "node"}, debug : BOOLEAN,
     transformations : {<<>>, <<RuleDollar>>, <<RuleThis>>},
     optimize : 0..3, minify : BOOLEAN, test : BOOLEAN]
Compiled == <<"a", "$", "a", "(this));">>
Earlier == <<"earlier">>
Bindings == <<"export default elm as Elm;">>

BuildInit ==
    /\ ScanIdle /\ PreIdle /\ TrIdle /\ CacheIdle /\ NsIdle /\ WalkIdle /\ CliIdle /\ TabIdle /\ RaceIdle
    /\ buildOptions \in OptionSet
    /\ pc = "idle"
    /\ buildContent = <<>>
    /\ \E old \in {Missing, Earlier} :
          disk = [p \in Paths |-> IF p = "output" THEN old ELSE Missing]
    /\ trace = <<>>
    /\ status = "none"
    /\ bindings = "none"

\* elm up to `await run(args, config)`: the compiler is started with
\* --output=out.
Elm ==
    /\ pc = "idle"
    /\ pc' = "run"
    /\ trace' = <<Event("compiler", OutPath(Config(buildOptions)))>>
    /\ UNCHANGED <<buildOptions, buildContent, disk, status, bindings>>
    /\ UNCHANGED <<scanVars, preVars, trVars, cacheVars, nsVars, walkVars, cliVars, tabVars, raceVars>>

\* CompilerExit going on to postprocess whatever the status is.
CompilerExitIgnoresStatus(success) ==
    /\ pc = "run"
    /\ status' = IF success THEN "success" ELSE "failure"
    /\ disk' = IF success
               THEN [disk EXCEPT ![OutPath(Config(buildOptions))] = Compiled]
               ELSE disk
    /\ pc' = IF ~needsTempFile(Config(buildOptions)) THEN "returned" ELSE "read"
    /\ UNCHANGED <<buildOptions, buildContent, trace, bindings>>
    /\ UNCHANGED <<scanVars, preVars, trVars, cacheVars, nsVars, walkVars, cliVars, tabVars, raceVars>>

\* The compiler exits; elm returns its status or calls postprocess, which
\* starts reading src.
CompilerExit(success) ==
    /\ pc = "run"
    /\ status' = IF success THEN "success" ELSE "failure"
    /\ disk' = IF success
               THEN [disk EXCEPT ![OutPath(Config(buildOptions))] = Compiled]
               ELSE disk
    /\ pc' = IF ~success \/ ~needsTempFile(Config(buildOptions))
             THEN "returned" ELSE "read"
    /\ UNCHANGED <<buildOptions, buildContent, trace, bindings>>
    /\ UNCHANGED <<scanVars, preVars, trVars, cacheVars, nsVars, walkVars, cliVars, tabVars, raceVars>>

\* The read of src completes; transform and modularize run, the write of
\* the bindings is started and not awaited.
ReadDone ==
    /\ pc = "read"
    /\ LET config == Config(buildOptions)
       IN  /\ buildContent' = SyncSteps(disk["temp"], config)
           /\ trace' = trace \o <<Event("read", "temp")>> \o SyncTrace(config)
           /\ bindings' = IF config.module /\ config.typescript # ""
                          THEN "pending" ELSE bindings
           /\ pc' = AwaitAfter("read", config)
    /\ UNCHANGED <<buildOptions, disk, status>>
    /\ UNCHANGED <<scanVars, preVars, trVars, cacheVars, nsVars, walkVars, cliVars, tabVars, raceVars>>

OptimizeDone ==
    /\ pc = "optimize"
    /\ LET config == Config(buildOptions)
       IN  /\ buildContent' = optimize(buildContent, config.optimize = 3)
           /\ pc' = AwaitAfter("optimize", config)
    /\ trace' = Append(trace, Event("optimize", ""))
    /\ UNCHANGED <<buildOptions, disk, status, bindings>>
    /\ UNCHANGED <<scanVars, preVars, trVars, cacheVars, nsVars, walkVars, cliVars, tabVars, raceVars>>

\* `content = result.code ?? content`: terser's result may have no code.
MinifyDone(hasCode) ==
    /\ pc = "minify"
    /\ buildContent' = IF hasCode THEN minify(buildContent) ELSE buildContent
    /\ pc' = AwaitAfter("minify", Config(buildOptions))
    /\ trace' = Append(trace, Event("minify", ""))
    /\ UNCHANGED <<buildOptions, disk, status, bindings>>
    /\ UNCHANGED <<scanVars, preVars, trVars, cacheVars, nsVars, walkVars, cliVars, tabVars, raceVars>>

WriteDone ==
    /\ pc = "write"
    /\ disk' = [disk EXCEPT !["output"] = buildContent]
    /\ trace' = Append(trace, Event("write", "output"))
    /\ pc' = "returned"
    /\ UNCHANGED <<buildOptions, buildContent, status, bindings>>
    /\ UNCHANGED <<scanVars, preVars, trVars, cacheVars, nsVars, walkVars, cliVars, tabVars, raceVars>>

\* The write typescript() started completes, whenever that is.
BindingsWritten ==
    /\ bindings = "pending"
    /\ bindings' = "written"
    /\ disk' = [disk EXCEPT !["bindings"] = Bindings]
    /\ UNCHANGED <<buildOptions, pc, buildContent, trace, status>>
    /\ UNCHANGED <<scanVars, preVars, trVars, cacheVars, nsVars, walkVars, cliVars, tabVars, raceVars>>

BuildNext ==
    \/ Elm
    \/ \E success \in BOOLEAN : CompilerExit(success)
    \/ ReadDone
    \/ OptimizeDone
    \/ \E hasCode \in BOOLEAN : MinifyDone(hasCode)
    \/ WriteDone
    \/ BindingsWritten

SpecBuild == BuildInit /\ [][BuildNext]_vars

(***************************************************************************)
(* The build as documented.                                                *)
(***************************************************************************)
\* At least one post-processing step is requested: module output, rules,
\* an optimization level above 1, or minification.
Requested ==
    \/ buildOptions.module \/ buildOptions.typescript # ""
    \/ buildOptions.transformations # <<>>
    \/ buildOptions.optimize > 1
    \/ buildOptions.minify

\* compiler, [rule application], [modularization], [optimization],
\* [minification], write: the steps that are enabled, in the documented order.
StepsInOrder ==
    <<Event("compiler", "temp"), Event("read", "temp")>>
        \o (IF buildOptions.transformations # <<>>
            THEN <<Event("transform", "")>> ELSE <<>>)
        \o (IF buildOptions.module \/ buildOptions.typescript # ""
            THEN <<Event("modularize", "")>> ELSE <<>>)
        \o (IF buildOptions.optimize > 1 THEN <<Event("optimize", "")>> ELSE <<>>)
        \o (IF buildOptions.minify THEN <<Event("minify", "")>> ELSE <<>>)
        \o <<Event("write", "output")>>

IsPrefix(s, t) == Len(s) <= Len(t) /\ s = SubSeq(t, 1, Len(s))

AfterRules ==
    IF buildOptions.transformations # <<>>
    THEN transform(Compiled, Config(buildOptions)) ELSE Compiled
AfterModule ==
    IF buildOptions.module \/ buildOptions.typescript # ""
    THEN modularize(AfterRules) ELSE AfterRules
AfterOptimize ==
    IF buildOptions.optimize > 1
    THEN optimize(AfterModule, buildOptions.optimize = 3) ELSE AfterModule
\* terser's result with code, or without.
AfterMinify ==
    IF buildOptions.minify THEN {minify(AfterOptimize), AfterOptimize}
    ELSE {AfterOptimize}

\* C9: in a build that needs post-processing the steps happen in the order
\* compiler, rule application, modularization, optimization, minification,
\* one write of the output file; each enabled step works on the content the
\* previous enabled step produced and a step not requested leaves it as it
\* is, so the file written is the composition of the enabled steps over
\* what the compiler produced.
C9_Order ==
    Requested =>
        /\ IsPrefix(trace, StepsInOrder)
        /\ pc = "returned" /\ status = "success" =>
              /\ trace = StepsInOrder
              /\ disk["output"] \in AfterMinify

\* All four steps are enabled and each changed the content.
C9_Witness ==
    /\ pc = "returned" /\ status = "success"
    /\ Len(trace) = 7
    /\ AfterRules # Compiled
    /\ disk["output"] = minify(AfterOptimize)

\* C10: the compiler is given a temporary output path and post-processing
\* runs exactly when a post-processing step is requested; otherwise the
\* compiler is given the final output path and the build neither reads nor
\* writes a file after the compiler exits.
C10_TempFile ==
    pc # "idle" =>
        /\ trace[1] = Event("compiler", IF Requested THEN "temp" ELSE "output")
        /\ Len(trace) > 1 => Requested
        /\ Requested /\ pc = "returned" /\ status = "success" =>
              /\ Event("read", "temp") = trace[2]
              /\ Event("write", "output") = trace[Len(trace)]
        /\ ~Requested =>
              /\ pc \in {"run", "returned"}
              /\ bindings = "none"
              /\ disk["temp"] = Missing
              /\ status = "success" => disk["output"] = Compiled

\* --optimize at level 1 and nothing else: the compiler wrote the output
\* file itself.
C10_Witness ==
    /\ pc = "returned" /\ status = "success"
    /\ ~Requested /\ buildOptions.optimize = 1
    /\ trace = <<Event("compiler", "output")>>
    /\ disk["output"] = Compiled

\* Level 2 and nothing else: the compiler wrote the temporary file and
\* postprocess wrote the output.
C10_WitnessTemp ==
    /\ pc = "returned" /\ status = "success"
    /\ buildOptions.optimize = 2 /\ ~buildOptions.minify
    /\ buildOptions.transformations = <<>>
    /\ ~buildOptions.module /\ buildOptions.typescript = ""
    /\ disk["temp"] = Compiled
    /\ disk["output"] = optimize(Compiled, FALSE)

\* C11: when the compiler exits with a non-success status elm returns that
\* status and does nothing more: no read, rule application, modularization,
\* optimization or minification, no bindings, and the output file is as it
\* was before the build.
C11_CompilerFailure ==
    status = "failure" =>
        /\ pc = "returned"
        /\ Len(trace) = 1 /\ trace[1].step = "compiler"
        /\ buildContent = <<>>
        /\ bindings = "none"
        /\ disk["output"] \in {Missing, Earlier}
        /\ disk["temp"] = Missing /\ disk["bindings"] = Missing

\* Every post-processing step is requested, the compiler fails, the output
\* file of an earlier build is still there.
C11_Witness ==
    /\ status = "failure" /\ pc = "returned"
    /\ buildOptions.module /\ buildOptions.minify /\ buildOptions.optimize = 3
    /\ buildOptions.transformations # <<>>
    /\ disk["output"] = Earlier

(***************************************************************************)
(* Specification of xelm: the rules are taken from the cache or extracted, *)
(* the caller's rules are added, elm builds.                               *)
(***************************************************************************)
XelmOptionSet ==
    [module : BOOLEAN, typescript : {""}, debug : {FALSE},
     transformations : {<<>>, <<RuleDollar>>},
     optimize : {0, 2}, minify : BOOLEAN, test : BOOLEAN]
XelmFiles ==
    { [elmJson |-> e, readme |-> r, deps |-> ds, cache |-> c] :
        e \in {NoManifest} \cup
                 { [exists |-> TRUE, mtime |-> 0, json |-> j] : j \in ManifestSet },
        r \in {Absent} \cup { File(d, m) : d \in ReadmeDocs, m \in {0, MaxTime} },
        ds \in PackageDocs,
        c \in [BOOLEAN -> {NoFile, [exists |-> TRUE, mtime |-> 0,
                                     text |-> JSONstringify(<<RulePrefixed>>)]}] }

XelmInit ==
    /\ ScanIdle /\ PreIdle /\ TrIdle /\ NsIdle /\ WalkIdle /\ CliIdle /\ TabIdle /\ RaceIdle
    /\ fs \in XelmFiles
    /\ now = MaxTime
    /\ call = NoCall
    /\ ncalls = 0
    /\ buildOptions \in XelmOptionSet
    /\ pc = "xelm"
    /\ buildContent = <<>>
    /\ disk = [p \in Paths |-> IF p = "output" THEN Earlier ELSE Missing]
    /\ trace = <<>>
    /\ status = "none"
    /\ bindings = "none"

\* xelm going on with the caller's rules alone when the extraction fails.
XelmFallsBack(refresh) ==
    /\ pc = "xelm"
    /\ LET r == extractWithCache(fs, now, buildOptions.test, refresh)
       IN  /\ fs' = r.files
           /\ call' = [made |-> TRUE, test |-> buildOptions.test,
                       refresh |-> refresh, before |-> fs,
                       extracted |-> r.extracted, wrote |-> r.wrote,
                       result |-> r.result]
           /\ buildOptions' = [buildOptions EXCEPT !.transformations =
                                  r.result.transforms \o @]
           /\ pc' = "idle"
    /\ ncalls' = ncalls + 1
    /\ UNCHANGED <<now, buildContent, disk, trace, status, bindings>>
    /\ UNCHANGED <<scanVars, preVars, trVars, nsVars, walkVars, cliVars, tabVars, raceVars>>

\* xelm putting the caller's transformations before the extracted ones.
XelmCallerFirst(refresh) ==
    /\ pc = "xelm"
    /\ LET r == extractWithCache(fs, now, buildOptions.test, refresh)
       IN  /\ fs' = r.files
           /\ call' = [made |-> TRUE, test |-> buildOptions.test,
                       refresh |-> refresh, before |-> fs,
                       extracted |-> r.extracted, wrote |-> r.wrote,
                       result |-> r.result]
           /\ buildOptions' = IF r.result.ok
                              THEN [buildOptions EXCEPT !.transformations =
                                        @ \o r.result.transforms]
                              ELSE buildOptions
           /\ pc' = IF r.result.ok THEN "idle" ELSE "aborted"
    /\ ncalls' = ncalls + 1
    /\ UNCHANGED <<now, buildContent, disk, trace, status, bindings>>
    /\ UNCHANGED <<scanVars, preVars, trVars, nsVars, walkVars, cliVars, tabVars, raceVars>>

\* xelm: `await extractWithCache(...)`, the caller's transformations are
\* pushed after the extracted ones, elm is called with the result; a fatal
\* error of the extraction ends xelm.
Xelm(refresh) ==
    /\ pc = "xelm"
    /\ LET r == extractWithCache(fs, now, buildOptions.test, refresh)
       IN  /\ fs' = r.files
           /\ call' = [made |-> TRUE, test |-> buildOptions.test,
                       refresh |-> refresh, before |-> fs,
                       extracted |-> r.extracted, wrote |-> r.wrote,
                       result |-> r.result]
           /\ buildOptions' = IF r.result.ok
                              THEN [buildOptions EXCEPT !.transformations =
                                        r.result.transforms \o @]
                              ELSE buildOptions
           /\ pc' = IF r.result.ok THEN "idle" ELSE "aborted"
    /\ ncalls' = ncalls + 1
    /\ UNCHANGED <<now, buildContent, disk, trace, status, bindings>>
    /\ UNCHANGED <<scanVars, preVars, trVars, nsVars, walkVars, cliVars, tabVars, raceVars>>

XelmNext ==
    \/ \E refresh \in BOOLEAN : Xelm(refresh)
    \/ Elm
    \/ \E success \in BOOLEAN : CompilerExit(success)
    \/ ReadDone
    \/ OptimizeDone
    \/ \E hasCode \in BOOLEAN : MinifyDone(hasCode)
    \/ WriteDone
    \/ BindingsWritten

SpecXelm == XelmInit /\ [][XelmNext]_vars

\* The extraction xelm ran ended with a fatal error.
ExtractionFailed == call.made /\ call.extracted /\ ~call.result.ok

\* C12: when the rule extraction of xelm fails fatally (elm.json missing,
\* no elm-version, a malformed README of the project or of a dependency)
\* the build is aborted: no artifact is created or overwritten, the
\* compiler is not started, the output file is not written and the
\* extraction is not run again.
C12_Aborted ==
    ExtractionFailed =>
        /\ pc = "aborted"
        /\ fs = call.before
        /\ ncalls = 1
        /\ trace = <<>> /\ status = "none" /\ bindings = "none"
        /\ disk = [p \in Paths |-> IF p = "output" THEN Earlier ELSE Missing]

\* The README of the dependency a/x is malformed, the artifact of an
\* earlier run exists and is stale.
C12_Witness ==
    /\ ExtractionFailed /\ pc = "aborted"
    /\ call.before.elmJson.exists /\ call.before.elmJson.json.hasVersion
    /\ WellFormed(call.before.readme)
    /\ ~WellFormed(call.before.deps["a/x"])
    /\ call.before.cache[call.test].exists
    /\ ~call.refresh

(***************************************************************************)
(* Specification of the namespace rewrite: a package name and the text of  *)
(* a code block are chosen, the text is rewritten with getNamespace(name). *)
(***************************************************************************)
Thrown == <<"<thrown>">>
NameSet ==
    { <<"acme", "/", "widgets">>, <<"my", "-", "co", "/", "ui", ".", "js">>,
      <<"a", "/", "a">>, <<"solo">> }

\* `$author$project$` of a name, spelled as the name is.
Spelled(name) ==
    LET parts == SplitOn(name, "/")
    IN  <<"$">> \o parts[1] \o <<"$">>
            \o (IF Len(parts) > 1 THEN parts[2] ELSE <<>>) \o <<"$">>

ChunkSet(name) ==
    { Spelled(name), Spelled(escapeVar(name)), <<"$">>, <<"foo">>, <<name[1]>>, <<"\n">> }

NsInit ==
    /\ ScanIdle /\ PreIdle /\ TrIdle /\ CacheIdle /\ BuildIdle /\ WalkIdle /\ CliIdle /\ TabIdle /\ RaceIdle
    /\ nsName \in NameSet
    /\ \E k \in 0..MaxChunks : \E cs \in [1..k -> ChunkSet(nsName)] :
          nsText = Flatten(cs)
    /\ nsOut = Pending

\* const regExp = getNamespace(namespace);
\* token.text.replaceAll(regExp, "$author$project$")
Rewrite ==
    /\ nsOut = Pending
    /\ nsOut' = IF getNamespace(nsName).ok
                THEN replaceAllRegExp(nsText, 1, getNamespace(nsName).regExp, PLACEHOLDER)
                ELSE Thrown
    /\ UNCHANGED <<nsName, nsText>>
    /\ UNCHANGED <<scanVars, preVars, trVars, cacheVars, buildVars, walkVars, cliVars, tabVars, raceVars>>

NsNext == Rewrite

SpecNamespace == NsInit /\ [][NsNext]_vars

\* a and n of the identifier "a/n", hyphens mapped to underscores.
Underscored(part) == [i \in 1..Len(part) |-> IF part[i] = "-" THEN "_" ELSE part[i]]
Occurrence(name) ==
    LET slash == CHOOSE i \in 1..Len(name) : name[i] = "/" /\ \A j \in 1..(i - 1) : name[j] # "/"
    IN  <<"$">> \o Underscored(SubSeq(name, 1, slash - 1)) \o <<"$">>
            \o Underscored(SubSeq(name, slash + 1, Len(name))) \o <<"$">>
NsRan == nsOut # Pending /\ nsOut # Thrown

\* C15: with the matcher of getNamespace for "a/n" the rewritten text is
\* the text with every occurrence of $a'$n'$ (found left to right) replaced
\* by $author$project$ and nothing else changed; $acme$widgets$foo with the
\* matcher for acme/widgets becomes $author$project$foo, and a text with no
\* occurrence is returned as it is.
C15_Rewrite ==
    NsRan =>
        /\ nsOut = replaceAll(nsText, Occurrence(nsName), PLACEHOLDER)
        /\ (\A i \in 1..Len(nsText) : ~MatchAt(nsText, i, Occurrence(nsName)))
              => nsOut = nsText
        /\ nsName = <<"acme", "/", "widgets">>
              /\ nsText = <<"$", "acme", "$", "widgets", "$", "foo">>
              => nsOut = <<"$", "author", "$", "project", "$", "foo">>

\* my-co/ui.js: $my_co$ui.js$ is replaced, $my-co$ui.js$ is not.
C15_Witness ==
    /\ NsRan
    /\ nsName = <<"my", "-", "co", "/", "ui", ".", "js">>
    /\ nsText = Spelled(nsName) \o <<"foo">> \o Spelled(escapeVar(nsName))
    /\ nsOut = Spelled(nsName) \o <<"foo">> \o PLACEHOLDER

\* The documented example.
C15_WitnessExample ==
    /\ nsName = <<"acme", "/", "widgets">>
    /\ nsText = <<"$", "acme", "$", "widgets", "$", "foo">>
    /\ nsOut = <<"$", "author", "$", "project", "$", "foo">>

(***************************************************************************)
(* Specification of the walker: a project directory, the mode and the      *)
(* directory two levels up are chosen, extract of src/xelm.ts and extract  *)
(* of src/shell.nix each run once.                                         *)
(***************************************************************************)
NsRuleDoc(name) ==
    <<AnchorParagraph, Code("js", Spelled(name) \o <<"f">>),
      Code("js", Spelled(name) \o <<"g">>)>>
Acme == <<"acme", "/", "widgets">>
\* The elm.json of a package has a name, the one of an application has none.
PackageManifest(name) ==
    [hasVersion |-> TRUE, name |-> name, dependencies |-> NoDependencies,
     testDependencies |-> NoDependencies]
ParentSet ==
    { [elmJson |-> e, readme |-> r] :
        e \in {NoManifest} \cup
                 { [exists |-> TRUE, mtime |-> 0, json |-> j] :
                     j \in { PackageManifest(Acme), PackageManifest(<<"solo">>),
                             Manifest(TRUE, NoDependencies, NoDependencies),
                             Manifest(FALSE, NoDependencies, NoDependencies) } },
        r \in {Absent, File(NsRuleDoc(Acme), 0), File(OddDoc("p"), 0)} }
WalkPackageDocs ==
    { [d \in Packages |-> CASE d = "c/z" -> Absent
                             [] d = "b/y" -> File(RuleDoc("y", "2"), 0)
                             [] OTHER -> ax] :
        ax \in {Absent, File(NsRuleDoc(PackageName("a/x")), 0), File(OddDoc("x"), 0)} }

WalkInit ==
    /\ ScanIdle /\ PreIdle /\ TrIdle /\ BuildIdle /\ NsIdle /\ CliIdle /\ TabIdle /\ RaceIdle
    /\ \E e \in {NoManifest} \cup
                 { [exists |-> TRUE, mtime |-> 0, json |-> j] : j \in ManifestSet },
          r \in {Absent} \cup
                 { File(d, 0) : d \in ReadmeDocs \cup {NsRuleDoc(Acme)} },
          ds \in WalkPackageDocs :
            fs = [elmJson |-> e, readme |-> r, deps |-> ds,
                  cache |-> [t \in BOOLEAN |-> NoFile]]
    /\ now = 0 /\ call = NoCall /\ ncalls = 0
    /\ \E t \in BOOLEAN, p \in ParentSet :
          walk = [test |-> t, parent |-> p, ts |-> NotRun, nix |-> NotRun]

ExtractTs ==
    /\ walk.ts = NotRun
    /\ walk' = [walk EXCEPT !.ts = extract(fs, walk.test)]
    /\ UNCHANGED <<scanVars, preVars, trVars, cacheVars, buildVars, nsVars, cliVars, tabVars, raceVars>>

ExtractNix ==
    /\ walk.nix = NotRun
    /\ walk' = [walk EXCEPT !.nix = extractNix(fs, walk.parent, walk.test)]
    /\ UNCHANGED <<scanVars, preVars, trVars, cacheVars, buildVars, nsVars, cliVars, tabVars, raceVars>>

WalkNext == ExtractTs \/ ExtractNix

SpecWalk == WalkInit /\ [][WalkNext]_vars

ManifestNotFound == Failure("Could not find elm.json")
ManifestFieldMissing == Failure("Undefined elm-version field")

\* C13: extract fails with the manifest-not-found error when elm.json is
\* absent at the project root and with another, missing-field error when
\* elm.json has no elm-version; no Transform sequence is returned. In
\* src/shell.nix elm.json is read first; in src/xelm.ts the project's README
\* is scanned before it, so there the error is the manifest's whenever that
\* scan does not throw.
C13_ManifestErrors ==
    /\ ManifestNotFound # ManifestFieldMissing
    /\ walk.nix # NotRun =>
          /\ ~fs.elmJson.exists => walk.nix = ManifestNotFound
          /\ fs.elmJson.exists /\ ~fs.elmJson.json.hasVersion
                => walk.nix = ManifestFieldMissing
    /\ walk.ts # NotRun =>
          /\ ~fs.elmJson.exists =>
                /\ ~walk.ts.ok /\ walk.ts.transforms = <<>>
                /\ WellFormed(fs.readme) => walk.ts = ManifestNotFound
          /\ fs.elmJson.exists /\ ~fs.elmJson.json.hasVersion =>
                /\ ~walk.ts.ok /\ walk.ts.transforms = <<>>
                /\ WellFormed(fs.readme) => walk.ts = ManifestFieldMissing

\* elm.json is absent beside a README with a rule: both revisions stop with
\* the manifest-not-found error.
C13_Witness ==
    /\ ~fs.elmJson.exists
    /\ RulesOf(fs.readme) # <<>>
    /\ walk.nix = ManifestNotFound /\ walk.ts = ManifestNotFound

\* elm.json has no elm-version.
C13_WitnessField ==
    /\ fs.elmJson.exists /\ ~fs.elmJson.json.hasVersion
    /\ walk.nix = ManifestFieldMissing /\ walk.ts = ManifestFieldMissing

\* The README extract of src/shell.nix takes the project's rules from, and
\* the name found in the elm.json beside it.
OwnReadme == IF walk.test THEN walk.parent.readme ELSE fs.readme
ParentName ==
    IF "name" \in DOMAIN walk.parent.elmJson.json
    THEN walk.parent.elmJson.json.name ELSE NoName

\* The rules of a README rewritten with the matcher of a name.
RewrittenRulesOf(file, name) ==
    IF ~file.exists THEN <<>>
    ELSE extractReadme(file.tokens, getNamespace(name).regExp).transforms

WalkOrder == fs.elmJson.json.dependencies.direct \o fs.elmJson.json.dependencies.indirect

C16_DistinctArtifacts ==
    call.made =>
        /\ fs.cache[~call.test] = call.before.cache[~call.test]
        /\ call.result = IF call.extracted THEN extract(call.before, call.test)
                         ELSE Success(JSONparse(call.before.cache[call.test].text))
        /\ call.wrote =>
              fs.cache[call.test].text = JSONstringify(call.result.transforms)

\* A call in normal mode stored its rules, then a call in test mode stored
\* other rules beside them.
C16_Witness ==
    /\ ncalls = 2 /\ call.test /\ call.wrote
    /\ call.before.cache[FALSE].exists /\ ~call.before.cache[TRUE].exists
    /\ fs.cache[TRUE].exists
    /\ fs.cache[TRUE].text # fs.cache[FALSE].text
    /\ fs.cache[FALSE].text # JSONstringify(<<>>)

(***************************************************************************)
(* Unbalanced and unknown markers of the preprocessor.                     *)
(***************************************************************************)
\* What a failed preprocess would return; preprocess has no such outcome.
UnbalancedConditional == <<"<unbalanced conditional>">>

\* Line i is a closing marker met while no block is open: among the lines
\* before it every opener, whatever its flag, has been closed.
StrayEndAt(ls, i) ==
    LET kinds == LineKinds(ls)
    IN  kinds[i] = "close" /\ OpenAt(kinds, i) = {}
HasStrayEnd(ls) == \E i \in 1..Len(ls) : StrayEndAt(ls, i)

\* C17: preprocess fails with an unbalanced-conditional error when a
\* `// @END` line appears while no block is open.
C17_UnbalancedFails ==
    (PreRan /\ HasStrayEnd(SplitLines(preContent))) => preOut = UnbalancedConditional

\* What preprocess does with such a text: the stray `// @END` is skipped
\* and the lines around it are emitted.
C17_Witness ==
    /\ PreRan
    /\ preContent = JoinLines(<<LineA, LineEnd, LineB>>)
    /\ preOut = JoinLines(<<LineA, LineB>>)

\* A line is kept, reading an unknown flag as false: it is no marker and
\* every block open at it names a flag of the flag set and is satisfied.
IncludedUnknownFalse(ls, kinds, i, config) ==
    /\ kinds[i] = "text"
    /\ \A j \in OpenAt(kinds, i) :
          /\ KnownFlag(ls[j])
          /\ Requires(ls[j]) = FlagValue(config, WordAt(Words(ls[j]), 3))

RECURSIVE IncludedUnknownFalseFrom(_, _, _, _)
IncludedUnknownFalseFrom(ls, kinds, i, config) ==
    IF i > Len(ls) THEN <<>>
    ELSE (IF IncludedUnknownFalse(ls, kinds, i, config) THEN <<ls[i]>> ELSE <<>>)
             \o IncludedUnknownFalseFrom(ls, kinds, i + 1, config)

HasUnknownFlag(ls) == \E i \in 1..Len(ls) : IsOpener(ls[i]) /\ ~KnownFlag(ls[i])

\* C18: a block opened by `// @IF <name>` or `// @UNLESS <name>` whose flag
\* is not of the flag set is no error and is unconditionally false: its
\* marker line is not emitted, every line up to its matching `// @END` is
\* dropped, and that `// @END` closes this block, not an enclosing one.
\* Stated over texts in which no `// @END` is stray.
C18_UnknownFlagFalse ==
    LET ls == SplitLines(preContent)
    IN  (PreRan /\ HasUnknownFlag(ls) /\ ~HasStrayEnd(ls)) =>
            /\ preOut # UnbalancedConditional
            /\ DeTab(preOut) =
                   DeTab(JoinLines(IncludedUnknownFalseFrom(ls, LineKinds(ls), 1, preConfig)))

\* What preprocess does with an unknown flag: the marker line and the line
\* of its block are both emitted.
C18_Witness ==
    /\ PreRan
    /\ preContent = JoinLines(<<LineIfBogus, LineA, LineEnd>>)
    /\ preOut = JoinLines(<<LineIfBogus, LineA>>)

\* Inside a block that holds, the `// @END` of the unknown block closes the
\* enclosing block.
C18_WitnessEnclosing ==
    /\ PreRan
    /\ preContent = JoinLines(<<LineIfDebug, LineIfBogus, LineEnd>>)
    /\ preConfig.debug
    /\ preOut = LineIfBogus

(***************************************************************************)
(* Specification of the command line: `if (import.meta.main) await cli()`  *)
(* in a process of its own, or xelm/elm called by an embedding program.    *)
(* xelm and elm are async functions: what they throw, before their first   *)
(* await or after it, rejects the promise they returned.                   *)
(***************************************************************************)
\* The messages of the fatal errors of xelm and elm, and an error that is
\* no ElmError.
ErrorSet ==
    {[kind |-> "ElmError", message |-> "Could not find 'elm.json'"],
     [kind |-> "ElmError", message |-> "Unexpected 'elm' code block"],
     [kind |-> "ElmError",
      message |-> "Generating TypeScript bindings require building an ECMAScript module."],
     [kind |-> "Error", message |-> "No such file or directory"]}

\* Where the function fails: nowhere, before its first await, after it.
FaultSet == {"none", "sync", "async"}

NoExit == -1

\* Calling an async function: the call itself never throws; a throw before
\* the first await gives a promise that is already rejected.
CallAsync(fault) ==
    [threw |-> FALSE, promise |-> IF fault = "sync" THEN "rejected" ELSE "pending"]

\* What the runtime writes for an error no one caught: the uncaught report
\* with the stack, not the bare message.
Uncaught(error) == [by |-> "runtime", text |-> error.message, stack |-> TRUE]
\* console.error(e.message)
Diagnostic(error) == [by |-> "cli", text |-> error.message, stack |-> FALSE]

CliInit ==
    /\ ScanIdle /\ PreIdle /\ TrIdle /\ CacheIdle /\ BuildIdle /\ NsIdle /\ WalkIdle /\ TabIdle /\ RaceIdle
    /\ \E main \in BOOLEAN, tf \in BOOLEAN, fault \in FaultSet, error \in ErrorSet :
          proc = [NoProc EXCEPT !.pc = "start", !.main = main, !.transform = tf,
                                !.fault = fault,
                                !.error = IF fault = "none" THEN NoError ELSE error]

\* cli: `try { return transform ? xelm(...) : elm(...); } catch (e) {...}`.
\* The promise is returned without await: the try block is left before the
\* promise settles, and the catch clause guards only the call itself.
Cli ==
    /\ proc.pc = "start" /\ proc.main
    /\ LET r == CallAsync(proc.fault)
       IN  IF r.threw /\ proc.error.kind = "ElmError"
           THEN proc' = [proc EXCEPT !.pc = "exited", !.handled = TRUE,
                                     !.console = Append(@, Diagnostic(proc.error)),
                                     !.exit = 1]
           ELSE IF r.threw
           THEN proc' = [proc EXCEPT !.pc = "returned", !.promise = "rejected"]
           ELSE proc' = [proc EXCEPT !.pc = "returned", !.promise = r.promise]
    /\ UNCHANGED <<scanVars, preVars, trVars, cacheVars, buildVars, nsVars, walkVars, tabVars, raceVars>>

\* An embedding program calls xelm or elm itself.
LibraryCall ==
    /\ proc.pc = "start" /\ ~proc.main
    /\ proc' = [proc EXCEPT !.pc = "returned", !.promise = CallAsync(proc.fault).promise]
    /\ UNCHANGED <<scanVars, preVars, trVars, cacheVars, buildVars, nsVars, walkVars, tabVars, raceVars>>

\* The promise of xelm/elm settles after its awaits.
Settle ==
    /\ proc.pc = "returned" /\ proc.promise = "pending"
    /\ proc' = [proc EXCEPT !.promise =
                    IF proc.fault = "async" THEN "rejected" ELSE "fulfilled"]
    /\ UNCHANGED <<scanVars, preVars, trVars, cacheVars, buildVars, nsVars, walkVars, tabVars, raceVars>>

\* `await cli()` at the top level of the module: a rejection is an uncaught
\* error, which the runtime reports before it ends the process with 1.
TopLevelAwait ==
    /\ proc.pc = "returned" /\ proc.main /\ proc.promise \in {"rejected", "fulfilled"}
    /\ proc' = IF proc.promise = "rejected"
               THEN [proc EXCEPT !.pc = "exited",
                                 !.console = Append(@, Uncaught(proc.error)),
                                 !.exit = 1]
               ELSE [proc EXCEPT !.pc = "exited", !.exit = 0]
    /\ UNCHANGED <<scanVars, preVars, trVars, cacheVars, buildVars, nsVars, walkVars, tabVars, raceVars>>

\* The embedding program awaits the promise in a try block of its own.
CallerAwait ==
    /\ proc.pc = "returned" /\ ~proc.main /\ proc.promise \in {"rejected", "fulfilled"}
    /\ proc' = [proc EXCEPT !.pc = "resumed",
                            !.caught = IF proc.promise = "rejected" THEN proc.error
                                       ELSE NoError]
    /\ UNCHANGED <<scanVars, preVars, trVars, cacheVars, buildVars, nsVars, walkVars, tabVars, raceVars>>

CliNext == Cli \/ LibraryCall \/ Settle \/ TopLevelAwait \/ CallerAwait

SpecCli == CliInit /\ [][CliNext]_vars

FatalError == proc.fault # "none" /\ proc.error.kind = "ElmError"

\* C19: when the tool runs as a standalone `make` build and xelm/elm fails
\* with a fatal error, thrown before or after an await, the error handler of
\* cli runs: it prints the message of the error as a one-line diagnostic and
\* ends the process with status 1; called as a library, the same functions
\* raise the error to the caller and the process is not ended.
C19_HandlerRuns ==
    /\ (proc.main /\ FatalError /\ proc.pc = "exited") =>
          /\ proc.handled
          /\ proc.console = <<Diagnostic(proc.error)>>
          /\ proc.exit = 1
    /\ (~proc.main /\ FatalError /\ proc.pc = "resumed") =>
          /\ proc.caught = proc.error
          /\ proc.exit = NoExit /\ proc.console = <<>>

\* What happens: the process ends with 1 on the uncaught report of the
\* runtime, the handler of cli having printed nothing.
C19_Witness ==
    /\ proc.main /\ FatalError /\ proc.fault = "async" /\ proc.pc = "exited"
    /\ ~proc.handled
    /\ proc.console = <<Uncaught(proc.error)>>
    /\ proc.exit = 1

\* The half that holds: a library call raises the error to its caller.
C19_WitnessLibrary ==
    /\ ~proc.main /\ FatalError /\ proc.pc = "resumed"
    /\ proc.caught = proc.error /\ proc.exit = NoExit

(***************************************************************************)
(* Specification of a rule on its way from the README to the compiled      *)
(* code: extractReadme scans the README, transform applies what it         *)
(* returned.  A code block may be empty.                                   *)
(***************************************************************************)
EmptyBlock == Code("js", <<>>)
BlockSet == {AnchorParagraph, EmptyBlock, Code("js", <<"a">>), Code("js", <<"E">>)}

RulesInit ==
    /\ PreIdle /\ CacheIdle /\ BuildIdle /\ NsIdle /\ WalkIdle /\ CliIdle /\ TabIdle /\ RaceIdle
    /\ \E k \in 0..MaxBlocks : doc \in [1..k -> BlockSet]
    /\ regExp = NoRegExp
    /\ scanOut = NotRun
    /\ \E k \in 0..MaxCompiled : trContent \in [1..k -> ContentChars]
    /\ trConfig = [transformations |-> <<>>, debug |-> FALSE, test |-> FALSE]
    /\ trOut = Pending

\* extract: transformations.push(...extractReadme(...))
ExtractRules ==
    /\ scanOut = NotRun
    /\ scanOut' = extractReadme(doc, regExp)
    /\ UNCHANGED <<doc, regExp, trVars>>
    /\ UNCHANGED <<preVars, cacheVars, buildVars, nsVars, walkVars, cliVars, tabVars, raceVars>>

\* postprocess: `if (config.transformations.length > 0) content = transform(...)`
\* with the rules extraction returned.
ApplyRules ==
    /\ scanOut # NotRun /\ scanOut.ok /\ trOut = Pending
    /\ Len(scanOut.transforms) > 0
    /\ trConfig' = [trConfig EXCEPT !.transformations = scanOut.transforms]
    /\ trOut' = transform(trContent, trConfig')
    /\ UNCHANGED <<trContent, scanVars>>
    /\ UNCHANGED <<preVars, cacheVars, buildVars, nsVars, walkVars, cliVars, tabVars, raceVars>>

RulesNext == ExtractRules \/ ApplyRules

SpecRules == RulesInit /\ [][RulesNext]_vars

\* C20: every Transform extraction produces and every rule the applier
\* consumes has a non-empty find: a rule whose find is the empty text is
\* never applied to the compiled output.
C20_NonEmptyFind ==
    /\ (scanOut # NotRun /\ scanOut.ok) =>
          \A k \in 1..Len(scanOut.transforms) : scanOut.transforms[k].find # <<>>
    /\ trOut # Pending =>
          \A k \in 1..Len(trConfig.transformations) :
              Fmt(trConfig.transformations[k]) # <<>>

\* An empty code block became the find of a rule, and the rule was applied:
\* its replacement stands at every position of the compiled code.
C20_Witness ==
    /\ doc = <<AnchorParagraph, EmptyBlock, Code("js", <<"E">>)>>
    /\ scanOut.ok
    /\ scanOut.transforms = <<[find |-> <<>>, replace |-> <<"E">>]>>
    /\ trContent = <<"a">>
    /\ trOut = <<"E", "a", "E">>

(***************************************************************************)
(* The indentation preprocess strips from the lines it emits.              *)
(***************************************************************************)
\* The number of tabs a line begins with, and the text after them.
RECURSIVE LeadingTabs(_)
LeadingTabs(line) ==
    IF line # <<>> /\ Head(line) = "\t" THEN 1 + LeadingTabs(Tail(line)) ELSE 0
AfterIndent(line) == SubSeq(line, LeadingTabs(line) + 1, Len(line))

\* The indices of the lines that are kept, in order.
RECURSIVE IncludedIdxFrom(_, _, _, _)
IncludedIdxFrom(ls, kinds, i, config) ==
    IF i > Len(ls) THEN <<>>
    ELSE (IF Included(ls, kinds, i, config) THEN <<i>> ELSE <<>>)
             \o IncludedIdxFrom(ls, kinds, i + 1, config)

\* Line `out` is line `line` with one tab of its leading indentation
\* removed per open block, the rest of it unchanged.
StrippedOf(out, line, depth) ==
    /\ AfterIndent(out) = AfterIndent(line)
    /\ LeadingTabs(line) >= depth => LeadingTabs(out) = LeadingTabs(line) - depth

\* C21: each line preprocess emits has one tab removed per block open at
\* that line, taken from the leading indentation of the line only: the
\* text after the leading indentation is emitted unchanged and a tab that
\* is not part of the leading indentation is never removed.  Stated over
\* texts whose markers are balanced and name flags of the flag set.
C21_LeadingOnly ==
    LET ls == SplitLines(preContent)
        kinds == LineKinds(ls)
        idx == IncludedIdxFrom(ls, kinds, 1, preConfig)
        out == SplitLines(preOut)
    IN  (PreRan /\ FlagsKnown(ls) /\ ~HasStrayEnd(ls) /\ idx # <<>>) =>
            /\ Len(out) = Len(idx)
            /\ \A k \in 1..Len(idx) :
                  StrippedOf(out[k], ls[idx[k]], Cardinality(OpenAt(kinds, idx[k])))

\* Inside one block the line `A<tab>B` is emitted as `AB`: the tab removed
\* is the first of the line, which is not indentation.
C21_Witness ==
    /\ PreRan
    /\ preContent = JoinLines(<<LineIfDebug, LineATabB, LineEnd>>)
    /\ preConfig.debug
    /\ preOut = <<"A", "B">>

(***************************************************************************)
(* Whitespace normalization of src/xelm.ts: spacesToTabs(find) replaces    *)
(* /^\s{2}/gm by a tab until the text no longer changes.                   *)
(***************************************************************************)
\* find.replace(/^\s{2}/gm, "\t"): one pass over the text; ^ is the start
\* of a line of the text the pass was given.
RECURSIVE spacesToTabsPass(_, _)
spacesToTabsPass(s, i) ==
    IF i > Len(s) THEN <<>>
    ELSE IF LineStart(s, i) /\ i < Len(s) /\ IsSpace(s[i]) /\ IsSpace(s[i + 1])
    THEN <<"\t">> \o spacesToTabsPass(s, i + 2)
    ELSE <<s[i]>> \o spacesToTabsPass(s, i + 1)

\* while (true) { value = find.replace(...); if (value === find) break; find = value }
RECURSIVE spacesToTabsTs(_)
spacesToTabsTs(find) ==
    LET value == spacesToTabsPass(find, 1)
    IN  IF value = find THEN find ELSE spacesToTabsTs(value)

IndentChars == {" ", "a", "\n"}

TabInit ==
    /\ ScanIdle /\ PreIdle /\ TrIdle /\ CacheIdle /\ BuildIdle /\ NsIdle /\ WalkIdle /\ CliIdle /\ RaceIdle
    /\ \E k \in 0..MaxIndented : \E text \in [1..k -> IndentChars] :
          tab = [NoTab EXCEPT !.text = text]

\* transform of src/xelm.ts: spacesToTabs(find.trim()), spacesToTabs(replace);
\* here on the text as it is.
SpacesToTabsTs ==
    /\ tab.ts = Pending
    /\ tab' = [tab EXCEPT !.ts = spacesToTabsTs(tab.text)]
    /\ UNCHANGED <<scanVars, preVars, trVars, cacheVars, buildVars, nsVars, walkVars, cliVars, raceVars>>

\* transform of src/shell.nix: spacesToTabs(find) with the default "  ".
SpacesToTabsNix ==
    /\ tab.nix = Pending
    /\ tab' = [tab EXCEPT !.nix = spacesToTabs(tab.text, TwoSpaces)]
    /\ UNCHANGED <<scanVars, preVars, trVars, cacheVars, buildVars, nsVars, walkVars, cliVars, raceVars>>

TabNext == SpacesToTabsTs \/ SpacesToTabsNix

SpecTabs == TabInit /\ [][TabNext]_vars

\* The number of spaces a line begins with, and the text after them.
RECURSIVE LeadingSpaces(_)
LeadingSpaces(line) ==
    IF line # <<>> /\ Head(line) = " " THEN 1 + LeadingSpaces(Tail(line)) ELSE 0
AfterSpaces(line) == SubSeq(line, LeadingSpaces(line) + 1, Len(line))

\* The text of a line after its spaces and tabs.
RECURSIVE AfterBlanks(_)
AfterBlanks(line) ==
    IF line # <<>> /\ Head(line) \in {" ", "\t"} THEN AfterBlanks(Tail(line)) ELSE line

\* `out` is `text` with every two-space run of the leading spaces of each
\* line made one tab: the lines are as many, a blank line stays blank, the
\* text after the indentation is unchanged, and a line of 2k spaces before
\* a character that is no space begins with k tabs.
Normalized(text, out) ==
    LET ls == SplitLines(text)
        os == SplitLines(out)
    IN  /\ Len(os) = Len(ls)
        /\ \A i \in 1..Len(ls) :
              /\ ls[i] = <<>> => os[i] = <<>>
              /\ AfterSpaces(ls[i]) # <<>> =>
                    /\ AfterBlanks(os[i]) = AfterSpaces(ls[i])
                    /\ LeadingSpaces(ls[i]) % 2 = 0 =>
                          os[i] = Tabs(LeadingSpaces(ls[i]) \div 2) \o AfterSpaces(ls[i])

\* C22: spacesToTabs makes one tab of every two-space run of the leading
\* spaces of a line: a line of 2k spaces before a non-space character begins
\* with exactly k tabs afterwards, and blank lines, line breaks and the
\* text after the indentation are unchanged.
C22_TwoSpacesOneTab == tab.ts # Pending => Normalized(tab.text, tab.ts)

\* Four leading spaces come out as one tab, not two.
C22_Witness ==
    /\ tab.text = <<" ", " ", " ", " ", "a">>
    /\ tab.ts = <<"\t", "a">>

\* A blank line between two lines is taken for indentation.
C22_WitnessBlank ==
    /\ tab.text = <<"a", "\n", "\n", "\n", "a">>
    /\ tab.ts # Pending /\ tab.ts # tab.text

\* The spacesToTabs of src/shell.nix does what the sentence says.
C22_NixNormalizes == tab.nix # Pending => Normalized(tab.text, tab.nix)

(***************************************************************************)
(* Overlapping finds: which rule a position of the source goes to.         *)
(***************************************************************************)
DistinctFinds(config) ==
    \A k, m \in 1..Len(config.transformations) :
        k # m => FindsOf(config)[k] # FindsOf(config)[m]

\* The source from position i on, read left to right: where some find
\* occurs, the earliest declared rule among those whose find occurs there
\* takes its find and the reading resumes after it.
RECURSIVE LeftmostEarliest(_, _, _)
LeftmostEarliest(content, config, i) ==
    IF i > Len(content) THEN <<>>
    ELSE LET S == OccursAt(content, config, i)
         IN  IF S = {}
             THEN <<content[i]>> \o LeftmostEarliest(content, config, i + 1)
             ELSE LET k == CHOOSE j \in S : \A m \in S : j <= m
                  IN  Replacement(config.transformations[k], config)
                          \o LeftmostEarliest(content, config, i + Len(FindsOf(config)[k]))

\* Two rules whose finds occur at one position, the later find the longer.
PrefixPair(config, content, i) ==
    \E k, m \in OccursAt(content, config, i) :
        k < m /\ Len(FindsOf(config)[k]) < Len(FindsOf(config)[m])

\* C23: when several finds can match, the match that starts leftmost wins;
\* among finds that match at one position the rule declared earliest wins,
\* even when a later rule has a longer find there (rules `$` -> Y then
\* `$a` -> Z applied to `$a` give Y followed by `a`).  Stated over rule
\* lists whose finds are non-empty and pairwise different.
C23_LeftmostEarliest ==
    (TrRan /\ NonEmptyFinds(trConfig) /\ DistinctFinds(trConfig)) =>
        /\ trOut = LeftmostEarliest(trContent, trConfig, 1)
        /\ (trConfig.transformations = <<RuleDollar, RulePrefixed>>
               /\ trContent = <<"$", "a">>) => trOut = <<"Y", "a">>

C23_Witness ==
    /\ TrRan
    /\ trConfig.transformations = <<RuleDollar, RulePrefixed>>
    /\ trContent = <<"a", "$", "a">>
    /\ PrefixPair(trConfig, trContent, 2)
    /\ trOut = <<"a", "Y", "a">>

(***************************************************************************)
(* A replacement that holds a find.                                        *)
(***************************************************************************)
Contains(text, f) == \E i \in 1..Len(text) : MatchAt(text, i, f)

\* Rule k occurs once in the source, at position i, no other find occurs
\* anywhere, and the replacement of rule k holds the find of some rule.
ChainAt(content, config, k, i) ==
    /\ OccursAt(content, config, i) = {k}
    /\ \A j \in 1..Len(content) : j # i => OccursAt(content, config, j) = {}
    /\ \E m \in 1..Len(config.transformations) :
          /\ FindsOf(config)[m] # <<>>
          /\ Contains(Replacement(config.transformations[k], config), FindsOf(config)[m])

\* C24: rule application is a single scan: the text a replacement inserts
\* is never scanned again, so a replacement that holds the find of some
\* rule is left as inserted, and the result is that of one application of
\* the rule list (rules `<tab>a` -> `$` and `$` -> Y applied to
\* `a<tab>a` give `a$`, not `aY`).
C24_SingleScan ==
    TrRan =>
        \A k \in 1..Len(trConfig.transformations), i \in 1..Len(trContent) :
            ChainAt(trContent, trConfig, k, i) =>
                trOut = SubSeq(trContent, 1, i - 1)
                          \o Replacement(trConfig.transformations[k], trConfig)
                          \o SubSeq(trContent, i + Len(FindsOf(trConfig)[k]), Len(trContent))

C24_Witness ==
    /\ TrRan
    /\ trConfig.transformations = <<RuleIndented, RuleDollar>>
    /\ trConfig.debug
    /\ trContent = <<"a", "\t", "a">>
    /\ ChainAt(trContent, trConfig, 1, 2)
    /\ trOut = <<"a", "$">>

(***************************************************************************)
(* Specification of two builds in extractWithCache on one project root and *)
(* one mode, one step per await.  Deno.writeTextFile opens the artifact    *)
(* with truncation and then writes the text: between the two the file      *)
(* exists, is stamped, and holds nothing.  The README may be edited once   *)
(* while the builds run.                                                   *)
(***************************************************************************)
\* The text of a file opened for writing and not yet written.
Truncated == [json |-> "truncated", items |-> <<>>]

\* JSON.parse(await Deno.readTextFile(transformationsFile))
ReadArtifactText(text) ==
    IF text = Truncated THEN Failure("SyntaxError: Unexpected end of JSON input")
    ELSE Success(JSONparse(text))

RaceManifest ==
    Manifest(TRUE, [direct |-> <<"b/y">>, indirect |-> <<"a/x">>],
                   [direct |-> <<"a/x">>, indirect |-> <<>>])
RaceDeps ==
    [d \in Packages |-> CASE d = "c/z" -> Absent
                            [] d = "b/y" -> File(RuleDoc("y", "2"), 0)
                            [] OTHER -> File(RuleDoc("x", "1"), 0)]
EditedDoc == RuleDoc("p", "s")

RaceInit ==
    /\ ScanIdle /\ PreIdle /\ TrIdle /\ BuildIdle /\ NsIdle /\ WalkIdle /\ CliIdle /\ TabIdle
    /\ now \in 0..MaxTime
    /\ call = NoCall /\ ncalls = 0
    /\ \E test \in BOOLEAN, m \in 0..now, refresh \in [Builds -> BOOLEAN],
          kind \in {"absent", "stale", "fresh"} :
          LET sources == [NoFiles EXCEPT
                             !.elmJson = [exists |-> TRUE, mtime |-> 0, json |-> RaceManifest],
                             !.readme = File(RuleDoc("p", "r"), m),
                             !.deps = RaceDeps]
              stored == [exists |-> TRUE,
                         mtime |-> IF kind = "stale" THEN m - 1 ELSE m,
                         text |-> JSONstringify(extract(sources, test).transforms)]
          IN  /\ kind = "stale" => m > 0
              /\ fs = [sources EXCEPT !.cache[test] =
                                          IF kind = "absent" THEN NoFile ELSE stored]
              /\ race = [NoRace EXCEPT
                            !.test = test,
                            !.b = [p \in Builds |->
                                     [NoBuild EXCEPT
                                        !.refresh = refresh[p],
                                        !.pc = IF refresh[p] THEN "extract" ELSE "exists"]]]

RaceFrame ==
    /\ UNCHANGED <<call, ncalls>>
    /\ UNCHANGED <<scanVars, preVars, trVars, buildVars, nsVars, walkVars, cliVars, tabVars>>

Artifact == fs.cache[race.test]

\* needsCacheRefresh: `if (!await fs.exists(transformationsFile)) return true`
CheckExists(p) ==
    /\ race.b[p].pc = "exists"
    /\ race' = [race EXCEPT !.b[p].pc = IF Artifact.exists THEN "deps" ELSE "extract",
                            !.b[p].changed = ~Artifact.exists]
    /\ UNCHANGED <<fs, now>> /\ RaceFrame

\* needsCacheRefresh: dependenciesChanged = await isModifiedAfter(elm.json, ...)
CheckDeps(p) ==
    /\ race.b[p].pc = "deps"
    /\ race' = [race EXCEPT !.b[p].pc = "readme",
                            !.b[p].changed = isModifiedAfter(fs.elmJson, Artifact)]
    /\ UNCHANGED <<fs, now>> /\ RaceFrame

\* needsCacheRefresh: readmeChanged = await isModifiedAfter(README.md, ...);
\* return dependenciesChanged || readmeChanged
CheckReadme(p) ==
    /\ race.b[p].pc = "readme"
    /\ LET changed == race.b[p].changed \/ isModifiedAfter(fs.readme, Artifact)
       IN  race' = [race EXCEPT !.b[p].pc = IF changed THEN "extract" ELSE "read",
                               !.b[p].changed = changed]
    /\ UNCHANGED <<fs, now>> /\ RaceFrame

\* `if (!changed) return JSON.parse(await Deno.readTextFile(...))`
ReadArtifact(p) ==
    /\ race.b[p].pc = "read"
    /\ LET r == ReadArtifactText(Artifact.text)
       IN  race' = [race EXCEPT !.b[p].pc = IF r.ok THEN "done" ELSE "failed",
                               !.b[p].served = TRUE,
                               !.b[p].current = extract(fs, race.test),
                               !.b[p].result = r]
    /\ UNCHANGED <<fs, now>> /\ RaceFrame

\* transformations = await extract(projectRoot, elmHome, test)
ExtractSources(p) ==
    /\ race.b[p].pc = "extract"
    /\ LET r == extract(fs, race.test)
       IN  race' = [race EXCEPT !.b[p].pc = IF r.ok THEN "open" ELSE "failed",
                               !.b[p].ext = r,
                               !.b[p].result = IF r.ok THEN NotRun ELSE r]
    /\ UNCHANGED <<fs, now>> /\ RaceFrame

\* Deno.writeTextFile: the file is created or truncated.
OpenArtifact(p) ==
    /\ race.b[p].pc = "open"
    /\ fs' = [fs EXCEPT !.cache[race.test] =
                  [exists |-> TRUE, mtime |-> now, text |-> Truncated]]
    /\ race' = [race EXCEPT !.b[p].pc = "write"]
    /\ UNCHANGED now /\ RaceFrame

\* Deno.writeTextFile: the text is written; `return transformations`.
WriteArtifact(p) ==
    /\ race.b[p].pc = "write"
    /\ fs' = [fs EXCEPT !.cache[race.test] =
                  [exists |-> TRUE, mtime |-> now,
                   text |-> JSONstringify(race.b[p].ext.transforms)]]
    /\ race' = [race EXCEPT !.b[p].pc = "done", !.b[p].result = race.b[p].ext]
    /\ UNCHANGED now /\ RaceFrame

\* The author saves another README while a build is between its extraction
\* and its write.
EditReadme ==
    /\ ~race.edited
    /\ \E p \in Builds : race.b[p].pc \notin {"done", "failed"}
    /\ fs' = [fs EXCEPT !.readme = File(EditedDoc, now)]
    /\ race' = [race EXCEPT !.edited = TRUE,
                            !.late = \E p \in Builds : race.b[p].pc \in {"open", "write"}]
    /\ UNCHANGED now /\ RaceFrame

RaceTick ==
    /\ now < MaxTime
    /\ now' = now + 1
    /\ UNCHANGED <<fs, race>> /\ RaceFrame

RaceNext ==
    \/ \E p \in Builds :
          \/ CheckExists(p) \/ CheckDeps(p) \/ CheckReadme(p) \/ ReadArtifact(p)
          \/ ExtractSources(p) \/ OpenArtifact(p) \/ WriteArtifact(p)
    \/ EditReadme
    \/ RaceTick

SpecRace == RaceInit /\ [][RaceNext]_vars

BothComplete == \A p \in Builds : race.b[p].pc \in {"done", "failed"}
Wrote(p) == race.b[p].pc = "done" /\ ~race.b[p].served

\* C25: two builds in extractWithCache on one project root and mode, the
\* source files unchanged: both may find the cache stale and both write it;
\* once both are complete the artifact holds the rule sequence of the last
\* writer, which is the extraction of the sources, and each build has
\* received a rule sequence equal to the extraction of the sources.
C25_BenignRace ==
    (BothComplete /\ ~race.edited) =>
        /\ (\E p \in Builds : Wrote(p)) =>
              Artifact.text = JSONstringify(extract(fs, race.test).transforms)
        /\ \A p \in Builds : race.b[p].result = extract(fs, race.test)

\* Both builds found no artifact, both extracted and both wrote: the race
\* the design accepts.
C25_WitnessBothWrite ==
    /\ BothComplete /\ ~race.edited
    /\ \A p \in Builds : Wrote(p) /\ ~race.b[p].refresh /\ race.b[p].changed
    /\ Artifact.text = JSONstringify(extract(fs, race.test).transforms)

\* One build found the artifact the other had opened and not yet written:
\* it took the cache for fresh, read nothing and failed.
C25_Witness ==
    /\ BothComplete /\ ~race.edited
    /\ Wrote(1)
    /\ race.b[2].served /\ race.b[2].pc = "failed"
    /\ ~race.b[2].result.ok
    /\ extract(fs, race.test).ok

\* C27: whenever extractWithCache serves the rule sequence from the
\* artifact (refresh false), what it serves is what extraction over the
\* current elm.json and README.md would produce, also when a source file
\* was modified after extraction had read it and before the artifact was
\* written.
C27_ServedIsCurrent ==
    \A p \in Builds :
        (race.b[p].served /\ race.b[p].pc = "done") =>
            race.b[p].result = race.b[p].current

\* Build 1 extracted, the README was saved with another rule, build 1 then
\* wrote the old rules under a later stamp; build 2 found the artifact
\* newer than the README and served the old rules.
C27_Witness ==
    /\ race.edited /\ race.late
    /\ Wrote(1) /\ ~race.b[2].refresh
    /\ race.b[2].served /\ race.b[2].pc = "done"
    /\ fs.readme.tokens = EditedDoc
    /\ Artifact.mtime > fs.readme.mtime
    /\ race.b[2].result # extract(fs, race.test)
    /\ race.b[2].result = race.b[1].ext

(***************************************************************************)
(* The I/O operations of a build that are in flight.                       *)
(***************************************************************************)
\* elm or postprocess is suspended on the compiler process, on the read of
\* src or on the write of dest.
AwaitedInFlight == pc \in {"run", "read", "write"}
BindingsInFlight == bindings = "pending"

\* C26: within one build no two I/O operations are in flight at one time:
\* every file read, file write and external process of the build, the write
\* of the TypeScript binding file included, completes before the next one
\* starts and before elm returns.
C26_OneAtATime ==
    BindingsInFlight => (~AwaitedInFlight /\ pc # "returned")

\* The write of the bindings and the write of the output are in flight
\* together.
C26_Witness ==
    /\ BindingsInFlight
    /\ pc = "write"
    /\ buildOptions.module /\ buildOptions.typescript = "deno"

\* elm has returned and the bindings are not yet written.
C26_WitnessReturned ==
    /\ BindingsInFlight
    /\ pc = "returned" /\ status = "success"
    /\ disk["bindings"] = Missing /\ disk["output"] # Missing

(***************************************************************************)
(* What the staleness decision looks at.                                   *)
(***************************************************************************)
\* The project with the README of a package as it is, removed, or saved
\* anew at some time.
PackageChanges(files) ==
    { [files EXCEPT !.deps[d] = f] :
        d \in Packages,
        f \in {Absent} \cup { File(RuleDoc("x", "9"), t) : t \in 0..(MaxTime + 1) } }

\* C28: the staleness decision of extractWithCache depends on the refresh
\* flag and on the existence and modification times of the project's
\* elm.json, README.md and artifact only: a change to the README of a
\* dependency, the rest as it is, never causes recomputation, and the rules
\* cached for that dependency go on being returned.
C28_DependencyBlind ==
    call.made =>
        \A other \in PackageChanges(call.before) :
            LET r == extractWithCache(other, now, call.test, call.refresh)
            IN  /\ r.extracted = call.extracted
                /\ ~call.extracted =>
                      /\ r.result = call.result
                      /\ call.result = Success(JSONparse(ArtifactBefore.text))

\* The artifact holds the rule x -> 1 of a/x, whose README is gone: the
\* call does not extract and returns that rule.
C28_Witness ==
    /\ call.made /\ ~call.refresh /\ ~call.extracted
    /\ ~call.before.deps["a/x"].exists
    /\ \E k \in 1..Len(call.result.transforms) :
          call.result.transforms[k] = [find |-> <<"x">>, replace |-> <<"1">>]
    /\ call.result # extract(call.before, call.test)

(***************************************************************************)
(* The caller's transformations in xelm.                                   *)
(***************************************************************************)
\* The step in which xelm hands the rules to elm.
XelmHandsOver == pc = "xelm" /\ pc' = "idle"

\* C29: xelm appends the transformations of its caller after all extracted
\* rules (the project's, then its dependencies') in the sequence it hands
\* to the build, and never writes them to the artifact: after a call that
\* recomputed, the artifact holds the extracted sequence and nothing else,
\* whatever options.transformations held.
C29_CallerRulesLast ==
    [][XelmHandsOver =>
          /\ buildOptions'.transformations =
                 call'.result.transforms \o buildOptions.transformations
          /\ call'.extracted =>
                /\ call'.result = extract(fs, buildOptions.test)
                /\ fs'.cache[buildOptions.test].text =
                       JSONstringify(extract(fs, buildOptions.test).transforms)]_vars

\* A call that recomputed three rules and was given one: the build has
\* four, the caller's last, the artifact three.
C29_Witness ==
    /\ call.made /\ call.extracted /\ call.wrote
    /\ Len(call.result.transforms) = 3
    /\ buildOptions.transformations = call.result.transforms \o <<RuleDollar>>
    /\ fs.cache[call.test].text = JSONstringify(call.result.transforms)

(***************************************************************************)
(* Rules with one find.                                                    *)
(***************************************************************************)
\* The rule declared last among those whose find is the find of rule k.
LastWithFindOf(config, k) ==
    CHOOSE m \in 1..Len(config.transformations) :
        /\ FindsOf(config)[m] = FindsOf(config)[k]
        /\ \A n \in 1..Len(config.transformations) :
              FindsOf(config)[n] = FindsOf(config)[k] => n <= m

\* The reading of LeftmostEarliest, the replacement taken from the rule
\* declared last with the find that matched.
RECURSIVE LastDeclared(_, _, _)
LastDeclared(content, config, i) ==
    IF i > Len(content) THEN <<>>
    ELSE LET S == OccursAt(content, config, i)
         IN  IF S = {}
             THEN <<content[i]>> \o LastDeclared(content, config, i + 1)
             ELSE LET k == CHOOSE j \in S : \A m \in S : j <= m
                  IN  Replacement(config.transformations[LastWithFindOf(config, k)], config)
                          \o LastDeclared(content, config, i + Len(FindsOf(config)[k]))

SameFind(config, k, m) == k < m /\ FindsOf(config)[k] = FindsOf(config)[m]

\* C30: when two rules of the applied sequence have the same normalized
\* find, every match of that find is replaced by the replacement of the
\* rule declared last: a rule of the caller, which comes last, overrides a
\* README rule with the same find, and the replacement of the earlier rule
\* is never used.  Stated over rule lists whose finds are non-empty.
C30_LastDeclaredWins ==
    (TrRan /\ NonEmptyFinds(trConfig)) =>
        trOut = LastDeclared(trContent, trConfig, 1)

\* `$` -> Y then `$` -> `<tab>W`: both `$` of the source become `<tab>W`.
C30_Witness ==
    /\ TrRan
    /\ trConfig.transformations = <<RuleDollar, RuleAgain>>
    /\ SameFind(trConfig, 1, 2)
    /\ trContent = <<"$", "a", "$">>
    /\ trOut = <<"\t", "W", "a", "\t", "W">>

====
